---- MODULE Spec2Model ----
(***************************************************************************)
(* Model of the similarity comparator of ilovehash.dev                     *)
(* (apps/web/src/lib/hash/similarity.ts), of its algorithm registry        *)
(* (apps/web/src/lib/hash-metadata.ts) and of the registry lookup of the   *)
(* tool page (apps/web/src/app/hashes/[category]/[id]/page.tsx).           *)
(*                                                                         *)
(* A JavaScript string is a sequence of one-character strings.  A          *)
(* JavaScript number that may be fractional or NaN is a record             *)
(* [num, den]: the rational num/den, with den = 0 standing for NaN (the    *)
(* result of 0/0).  Integers that are never NaN are TLA+ integers.         *)
(***************************************************************************)
EXTENDS Integers, Sequences, FiniteSets, TLC

\* ---------------------------------------------------------------- bounds
\* longest free-form input string
MaxLen == 3
\* most 32-bit elements in a MinHash signature
MaxElems == 2
\* longest free-form category name, slug or title
MaxNameLen == 3

\* ------------------------------------------------------ program constants
\* "Nilsimsa compare returns -128 to 128, where 128 is identical"
NilsimsaMax == 128
\* "Each integer is 8 hex characters (4 bytes)"
ChunkLen == 8

\* ------------------------------------------------------------ JS numbers
Frac(n, d) == [num |-> n, den |-> d]
FracEq(x, y) == x.den # 0 /\ y.den # 0 /\ x.num * y.den = y.num * x.den

\* ------------------------------------------------------------ parseInt
HexDigit == {"0","1","2","3","4","5","6","7","8","9",
             "a","b","c","d","e","f","A","B","C","D","E","F"}

HexVal(c) ==
  CASE c = "0" -> 0  [] c = "1" -> 1  [] c = "2" -> 2  [] c = "3" -> 3
    [] c = "4" -> 4  [] c = "5" -> 5  [] c = "6" -> 6  [] c = "7" -> 7
    [] c = "8" -> 8  [] c = "9" -> 9
    [] c \in {"a","A"} -> 10  [] c \in {"b","B"} -> 11
    [] c \in {"c","C"} -> 12  [] c \in {"d","D"} -> 13
    [] c \in {"e","E"} -> 14  [] c \in {"f","F"} -> 15

WhiteSpace == {" "}

RECURSIVE SkipWhite(_)
SkipWhite(s) ==
  IF s # <<>> /\ Head(s) \in WhiteSpace THEN SkipWhite(Tail(s)) ELSE s

RECURSIVE DigitPrefix(_)
DigitPrefix(s) ==
  IF s # <<>> /\ Head(s) \in HexDigit
    THEN <<Head(s)>> \o DigitPrefix(Tail(s))
    ELSE <<>>

\* A 32-bit quantity is kept as two 16-bit halves [hi, lo].
Half == 65536
Word(h, l) == [hi |-> h, lo |-> l]

\* the number written by the hex digits s, modulo 2^32, continuing from acc
RECURSIVE HexNumber(_, _)
HexNumber(s, acc) ==
  IF s = <<>>
    THEN acc
    ELSE LET l == 16 * acc.lo + HexVal(Head(s))
             h == 16 * acc.hi + (l \div Half)
         IN HexNumber(Tail(s), Word(h % Half, l % Half))

\* parseInt(s, 16): leading white space is skipped, a sign and a 0x prefix
\* are accepted, the longest prefix of hex digits is read, and NaN is
\* returned when that prefix is empty.  The magnitude is kept modulo 2^32,
\* which is all that ToInt32 and ToUint32 depend on for the strings of at
\* most eight characters that are parsed here.
parseInt16(s) ==
  LET t == SkipWhite(s)
      u == IF t # <<>> /\ Head(t) \in {"+", "-"} THEN Tail(t) ELSE t
      v == IF Len(u) >= 2 /\ u[1] = "0" /\ u[2] \in {"x", "X"}
             THEN SubSeq(u, 3, Len(u)) ELSE u
      d == DigitPrefix(v)
  IN [nan |-> d = <<>>,
      neg |-> t # <<>> /\ Head(t) = "-",
      mag |-> HexNumber(d, Word(0, 0))]

\* ToUint32, as applied by a store into a Uint32Array: NaN becomes 0 and a
\* negative integer wraps around modulo 2^32
ToUint32(n) ==
  IF n.nan THEN Word(0, 0)
  ELSE IF ~n.neg THEN n.mag
  ELSE Word((Half - 1 - n.mag.hi + (IF n.mag.lo = 0 THEN 1 ELSE 0)) % Half,
            (Half - n.mag.lo) % Half)

\* the low 16 bits of ToInt32, as applied by the ^ operator to its operands
ToInt32Low(n) == ToUint32(n).lo

\* --------------------------------------------------------- hammingDistance
Bit(x, k) == (x \div (2 ^ k)) % 2

\* XorBits with "& ~" written for "^": only the bits set in val1 alone
XorBits_AndNot(val1, val2) ==
  LET D(k) == IF Bit(val1, k) = 1 /\ Bit(val2, k) = 0 THEN 1 ELSE 0
  IN D(0) + D(1) + D(2) + D(3)

\* (xor & 1) + ((xor >> 1) & 1) + ((xor >> 2) & 1) + ((xor >> 3) & 1)
\* for xor = val1 ^ val2: the number of the four low bits in which val1 and
\* val2 differ
XorBits(val1, val2) ==
  LET D(k) == IF Bit(val1, k) = Bit(val2, k) THEN 0 ELSE 1
  IN D(0) + D(1) + D(2) + D(3)

RECURSIVE SumTo(_, _)
SumTo(f, n) == IF n = 0 THEN 0 ELSE f[n] + SumTo(f, n - 1)

\* hammingDistance with the loop started at i = 1: the first characters
\* are not compared
hammingDistance_FromSecond(hex1, hex2) ==
  IF Len(hex1) # Len(hex2)
    THEN 0 - 1
    ELSE SumTo([i \in 1..Len(hex1) |->
                  IF i = 1 THEN 0
                  ELSE XorBits(ToInt32Low(parseInt16(<<hex1[i]>>)),
                               ToInt32Low(parseInt16(<<hex2[i]>>)))],
               Len(hex1))

\* hex1[i] and hex2[i] are one-character strings for every i below the
\* length, so the "|| '0'" alternative of the source is never taken.
hammingDistance(hex1, hex2) ==
  IF Len(hex1) # Len(hex2)
    THEN 0 - 1
    ELSE SumTo([i \in 1..Len(hex1) |->
                  XorBits(ToInt32Low(parseInt16(<<hex1[i]>>)),
                          ToInt32Low(parseInt16(<<hex2[i]>>)))],
               Len(hex1))

\* --------------------------------------------------- parseMinHashSignature
\* null, or the Uint32Array as a sequence of 32-bit words
NoSignature == [isNull |-> TRUE, sig |-> <<>>]

\* parseMinHashSignature with each slice one character short
parseMinHashSignature_ShortSlice(hex) ==
  IF Len(hex) % ChunkLen # 0
    THEN NoSignature
    ELSE [isNull |-> FALSE,
          sig |-> [i \in 1..(Len(hex) \div ChunkLen) |->
                     ToUint32(parseInt16(SubSeq(hex, (i - 1) * ChunkLen + 1,
                                                i * ChunkLen - 1)))]]

\* parseMinHashSignature with a Uint16Array: each element truncated to its
\* low 16 bits
parseMinHashSignature_Uint16(hex) ==
  IF Len(hex) % ChunkLen # 0
    THEN NoSignature
    ELSE [isNull |-> FALSE,
          sig |-> [i \in 1..(Len(hex) \div ChunkLen) |->
                     Word(0,
                          ToUint32(parseInt16(SubSeq(hex,
                                                     (i - 1) * ChunkLen + 1,
                                                     i * ChunkLen))).lo)]]

parseMinHashSignature(hex) ==
  IF Len(hex) % ChunkLen # 0
    THEN NoSignature
    ELSE [isNull |-> FALSE,
          sig |-> [i \in 1..(Len(hex) \div ChunkLen) |->
                     ToUint32(parseInt16(SubSeq(hex, (i - 1) * ChunkLen + 1,
                                                i * ChunkLen)))]]

\* ------------------------------------------------------------------- SDK
\* The functions of @ilovehash/sdk, as the specification describes them.

\* Hamming distance over the bit representation of two hex strings of the
\* same length
simhashHammingDistance(h1, h2) ==
  SumTo([i \in 1..Len(h1) |-> XorBits(HexVal(h1[i]), HexVal(h2[i]))],
        Len(h1))

\* similarity = 1 - distance / bitLength
simhashSimilarity(h1, h2) ==
  LET bitLength == 4 * Len(h1)
  IN Frac(bitLength - simhashHammingDistance(h1, h2), bitLength)

\* fraction of element-wise-equal positions of two sequences of the same
\* length
minhashJaccard(sig1, sig2) ==
  Frac(Cardinality({i \in 1..Len(sig1) : i <= Len(sig2) /\ sig1[i] = sig2[i]}),
       Len(sig1))

\* The correlation score is opaque: any integer of the nominal range, and
\* the maximum for identical inputs.
nilsimsaCompare(h1, h2) ==
  IF h1 = h2 THEN {NilsimsaMax} ELSE (0 - NilsimsaMax)..NilsimsaMax

\* ------------------------------------------------------------- comparator
\* What a call returns: null, or an object with the fields it carries.
Null == [tag |-> "null"]

\* The outcome of a call: the value the promise resolves to, and the SDK
\* functions called on the way.
Outcome(value, sdk) == [ret |-> value, calls |-> sdk]

compareSimHash(h1, h2) ==
  Outcome([tag |-> "object",
           distance |-> simhashHammingDistance(h1, h2),
           similarity |-> simhashSimilarity(h1, h2)],
          <<"simhashHammingDistance", "simhashSimilarity">>)

\* compareMinHash with "||" written for "&&"
compareMinHash_Or(h1, h2) ==
  LET sig1 == parseMinHashSignature(h1)
      sig2 == parseMinHashSignature(h2)
  IN IF ~sig1.isNull \/ ~sig2.isNull
       THEN Outcome([tag |-> "object",
                     similarity |-> minhashJaccard(sig1.sig, sig2.sig)],
                    <<"minhashJaccard">>)
       ELSE Outcome(Null, <<>>)

\* compareMinHash returning an empty object where it returns null
compareMinHash_Empty(h1, h2) ==
  LET sig1 == parseMinHashSignature(h1)
      sig2 == parseMinHashSignature(h2)
  IN IF ~sig1.isNull /\ ~sig2.isNull
       THEN Outcome([tag |-> "object",
                     similarity |-> minhashJaccard(sig1.sig, sig2.sig)],
                    <<"minhashJaccard">>)
       ELSE Outcome([tag |-> "object"], <<>>)

compareMinHash(h1, h2) ==
  LET sig1 == parseMinHashSignature(h1)
      sig2 == parseMinHashSignature(h2)
  IN IF ~sig1.isNull /\ ~sig2.isNull
       THEN Outcome([tag |-> "object",
                     similarity |-> minhashJaccard(sig1.sig, sig2.sig)],
                    <<"minhashJaccard">>)
       ELSE Outcome(Null, <<>>)

\* compareNilsimsa dividing by 128 where it divides by 256
compareNilsimsa_Half(h1, h2, s) ==
  LET compareResult == s
      similarity == Frac(compareResult + 128, 128)
      distance == 128 - compareResult
  IN Outcome([tag |-> "object", distance |-> distance,
              similarity |-> similarity],
             <<"nilsimsaCompare">>)

\* s is the score that sdk.nilsimsaCompare(hash1, hash2) returned
compareNilsimsa(h1, h2, s) ==
  LET compareResult == s
      similarity == Frac(compareResult + 128, 256)
      distance == 128 - compareResult
  IN Outcome([tag |-> "object", distance |-> distance,
              similarity |-> similarity],
             <<"nilsimsaCompare">>)

\* compareSimilarityHashes with a default branch that gives up
compareSimilarityHashes_NoDefault(alg, h1, h2, s) ==
  CASE alg = "simhash" -> compareSimHash(h1, h2)
    [] alg \in {"minhash", "bbitminhash", "superminhash"} ->
         compareMinHash(h1, h2)
    [] alg = "nilsimsa" -> compareNilsimsa(h1, h2, s)
    [] alg = "imatch" ->
         Outcome([tag |-> "object", distance |-> hammingDistance(h1, h2)],
                 <<>>)
    [] OTHER -> Outcome(Null, <<>>)

\* compareSimilarityHashes with an imatch branch that normalises its
\* distance into a similarity as well
compareSimilarityHashes_Normalised(alg, h1, h2, s) ==
  CASE alg = "simhash" -> compareSimHash(h1, h2)
    [] alg \in {"minhash", "bbitminhash", "superminhash"} ->
         compareMinHash(h1, h2)
    [] alg = "nilsimsa" -> compareNilsimsa(h1, h2, s)
    [] alg = "imatch" ->
         Outcome([tag |-> "object", distance |-> hammingDistance(h1, h2),
                  similarity |-> Frac(4 * Len(h1) - hammingDistance(h1, h2),
                                      4 * Len(h1))],
                 <<>>)
    [] OTHER ->
         Outcome([tag |-> "object", distance |-> hammingDistance(h1, h2)],
                 <<>>)

compareSimilarityHashes(alg, h1, h2, s) ==
  CASE alg = "simhash" -> compareSimHash(h1, h2)
    [] alg \in {"minhash", "bbitminhash", "superminhash"} ->
         compareMinHash(h1, h2)
    [] alg = "nilsimsa" -> compareNilsimsa(h1, h2, s)
    [] alg = "imatch" ->
         Outcome([tag |-> "object", distance |-> hammingDistance(h1, h2)],
                 <<>>)
    [] OTHER ->
         Outcome([tag |-> "object", distance |-> hammingDistance(h1, h2)],
                 <<>>)

\* ----------------------------------------------------------------- inputs
Alphabet == {"7", "a", "A", "g"}
HexAlphabet == Alphabet \cap HexDigit

StringsOver(chars, n) == UNION {[1..k -> chars] : k \in 0..n}

Strings == StringsOver(Alphabet, MaxLen)
HexStrings == StringsOver(HexAlphabet, MaxLen)

\* eight-character pieces of a MinHash signature; the last is not hex
Chunks ==
  { <<"0","0","0","0","0","0","0","0">>,
    <<"0","0","0","0","0","0","0","a">>,
    <<"0","0","0","0","0","0","0","A">>,
    <<"f","f","f","f","f","f","f","f">>,
    <<"g","0","0","0","0","0","0","1">> }

RECURSIVE Concat(_, _)
Concat(cs, n) == IF n = 0 THEN <<>> ELSE cs[n] \o Concat(cs, n - 1)

\* the strings made of exactly k chunks
SignaturesOf(k) == {Concat(cs, k) : cs \in [1..k -> Chunks]}
Signatures == UNION {SignaturesOf(k) : k \in 0..MaxElems}

\* strings whose length is not a multiple of 8
Ragged ==
  {s \o t : s \in SignaturesOf(0) \cup SignaturesOf(1),
            t \in {<<"a">>, <<"7","g">>, <<"a","A","7","7">>,
                   <<"0","0","0","0","0","0","1">>}}

MinHashIds == {"minhash", "bbitminhash", "superminhash"}
UnknownIds == {"", "sha256", "nosuchalgo"}

\* ---------------------------------------------------------------- registry
\* apps/web/src/lib/hash-metadata.ts.  A string that the code takes apart
\* (a category name, a slug, a title) is a sequence of one-character
\* strings; an algorithm id is only ever compared and is a plain string.

\* a field the object literal does not set
Undefined == "undefined"

\* the category names that occur in RAW_HASH_ALGORITHMS
CatCryptographic == <<"C","r","y","p","t","o","g","r","a","p","h","i","c">>
CatSHA2 == <<"S","H","A","-","2">>
CatSHA3 == <<"S","H","A","-","3">>
CatSHAKE == <<"S","H","A","K","E">>
CatBLAKE2 == <<"B","L","A","K","E","2">>
CatNoncryptographic == <<"N","o","n","-","c","r","y","p","t","o","g","r","a","p","h","i","c">>
CatChecksum == <<"C","h","e","c","k","s","u","m">>
CatModern == <<"M","o","d","e","r","n">>
CatSimilarity == <<"S","i","m","i","l","a","r","i","t","y">>
CatPassword == <<"P","a","s","s","w","o","r","d">>

\* one entry of RAW_HASH_ALGORITHMS: its key, and the fields that the code
\* modelled here reads (supportsComparison is FALSE where the entry does not
\* set it; native: the entry has a nodeCryptoName)
Algo(key, cat, mode, cmp, nat) ==
  [id |-> key, category |-> cat, uiMode |-> mode, supportsComparison |-> cmp,
   native |-> nat]

\* the entries before the similarity algorithms
AlgorithmsBeforeSimilarity ==
  <<
    Algo("md5", CatCryptographic, Undefined, FALSE, TRUE),
    Algo("sha1", CatCryptographic, Undefined, FALSE, TRUE),
    Algo("sha224", CatSHA2, Undefined, FALSE, TRUE),
    Algo("sha256", CatSHA2, Undefined, FALSE, TRUE),
    Algo("sha384", CatSHA2, Undefined, FALSE, TRUE),
    Algo("sha512", CatSHA2, Undefined, FALSE, TRUE),
    Algo("sha512-224", CatSHA2, Undefined, FALSE, TRUE),
    Algo("sha512-256", CatSHA2, Undefined, FALSE, TRUE),
    Algo("ripemd160", CatCryptographic, Undefined, FALSE, TRUE),
    Algo("sha3-224", CatSHA3, Undefined, FALSE, TRUE),
    Algo("sha3-256", CatSHA3, Undefined, FALSE, TRUE),
    Algo("sha3-384", CatSHA3, Undefined, FALSE, TRUE),
    Algo("sha3-512", CatSHA3, Undefined, FALSE, TRUE),
    Algo("keccak-224", CatCryptographic, Undefined, FALSE, FALSE),
    Algo("keccak-256", CatCryptographic, Undefined, FALSE, FALSE),
    Algo("keccak-384", CatCryptographic, Undefined, FALSE, FALSE),
    Algo("keccak-512", CatCryptographic, Undefined, FALSE, FALSE),
    Algo("shake128", CatSHAKE, Undefined, FALSE, TRUE),
    Algo("shake256", CatSHAKE, Undefined, FALSE, TRUE),
    Algo("blake2b512", CatBLAKE2, Undefined, FALSE, TRUE),
    Algo("blake2s256", CatBLAKE2, Undefined, FALSE, TRUE),
    Algo("blake1-224", CatCryptographic, Undefined, FALSE, FALSE),
    Algo("blake1-256", CatCryptographic, Undefined, FALSE, FALSE),
    Algo("blake1-384", CatCryptographic, Undefined, FALSE, FALSE),
    Algo("blake1-512", CatCryptographic, Undefined, FALSE, FALSE),
    Algo("murmurhash", CatNoncryptographic, Undefined, FALSE, FALSE),
    Algo("djb2", CatNoncryptographic, Undefined, FALSE, FALSE),
    Algo("sdbm", CatNoncryptographic, Undefined, FALSE, FALSE),
    Algo("fnv-1", CatNoncryptographic, Undefined, FALSE, FALSE),
    Algo("fnv-1a", CatNoncryptographic, Undefined, FALSE, FALSE),
    Algo("crc-32", CatChecksum, Undefined, FALSE, FALSE),
    Algo("adler32", CatChecksum, Undefined, FALSE, FALSE),
    Algo("crc-16", CatChecksum, Undefined, FALSE, FALSE),
    Algo("crc-8", CatChecksum, Undefined, FALSE, FALSE),
    Algo("crc-64", CatChecksum, Undefined, FALSE, FALSE),
    Algo("blake3", CatModern, Undefined, FALSE, FALSE),
    Algo("cshake128", CatModern, Undefined, FALSE, FALSE),
    Algo("cshake256", CatModern, Undefined, FALSE, FALSE),
    Algo("turboshake128", CatModern, Undefined, FALSE, FALSE),
    Algo("turboshake256", CatModern, Undefined, FALSE, FALSE),
    Algo("tuplehash256", CatModern, Undefined, FALSE, FALSE),
    Algo("parallelhash256", CatModern, Undefined, FALSE, FALSE),
    Algo("kt128", CatModern, Undefined, FALSE, FALSE),
    Algo("kt256", CatModern, Undefined, FALSE, FALSE)
  >>

\* the similarity algorithms with an entry that supports comparison but is
\* not marked as a similarity algorithm
SimilarityAlgorithms_Unmarked ==
  <<
    Algo("simhash", CatSimilarity, "similarity", TRUE, FALSE),
    Algo("minhash", CatSimilarity, "similarity", TRUE, FALSE),
    Algo("bbitminhash", CatSimilarity, "similarity", TRUE, FALSE),
    Algo("superminhash", CatSimilarity, "similarity", TRUE, FALSE),
    Algo("nilsimsa", CatSimilarity, "similarity", TRUE, FALSE),
    Algo("imatch", CatSimilarity, Undefined, TRUE, FALSE)
  >>

\* the similarity algorithms
SimilarityAlgorithms ==
  <<
    Algo("simhash", CatSimilarity, "similarity", TRUE, FALSE),
    Algo("minhash", CatSimilarity, "similarity", TRUE, FALSE),
    Algo("bbitminhash", CatSimilarity, "similarity", TRUE, FALSE),
    Algo("superminhash", CatSimilarity, "similarity", TRUE, FALSE),
    Algo("nilsimsa", CatSimilarity, "similarity", TRUE, FALSE),
    Algo("imatch", CatSimilarity, "similarity", TRUE, FALSE)
  >>

\* the entries after the similarity algorithms
AlgorithmsAfterSimilarity ==
  <<
    Algo("jenkins-one-at-a-time", CatNoncryptographic, Undefined, FALSE, FALSE),
    Algo("pearson", CatNoncryptographic, Undefined, FALSE, FALSE),
    Algo("bernstein", CatNoncryptographic, Undefined, FALSE, FALSE),
    Algo("elf-hash", CatNoncryptographic, Undefined, FALSE, FALSE),
    Algo("internet-checksum", CatChecksum, Undefined, FALSE, FALSE),
    Algo("fletcher-4", CatChecksum, Undefined, FALSE, FALSE),
    Algo("fletcher-8", CatChecksum, Undefined, FALSE, FALSE),
    Algo("fletcher-16", CatChecksum, Undefined, FALSE, FALSE),
    Algo("fletcher-32", CatChecksum, Undefined, FALSE, FALSE),
    Algo("zobrist", CatNoncryptographic, Undefined, FALSE, FALSE),
    Algo("tabulation", CatNoncryptographic, Undefined, FALSE, FALSE),
    Algo("argon2i", CatPassword, "password", FALSE, FALSE),
    Algo("argon2d", CatPassword, "password", FALSE, FALSE),
    Algo("argon2id", CatPassword, "password", FALSE, FALSE),
    Algo("has160", CatCryptographic, Undefined, FALSE, FALSE),
    Algo("gost", CatCryptographic, Undefined, FALSE, FALSE),
    Algo("streebog", CatCryptographic, Undefined, FALSE, FALSE),
    Algo("luhn", CatChecksum, Undefined, FALSE, FALSE),
    Algo("verhoeff", CatChecksum, Undefined, FALSE, FALSE),
    Algo("damm", CatChecksum, Undefined, FALSE, FALSE),
    Algo("rs-hash", CatNoncryptographic, Undefined, FALSE, FALSE),
    Algo("js-hash", CatNoncryptographic, Undefined, FALSE, FALSE),
    Algo("bkdr-hash", CatNoncryptographic, Undefined, FALSE, FALSE),
    Algo("dek-hash", CatNoncryptographic, Undefined, FALSE, FALSE),
    Algo("ap-hash", CatNoncryptographic, Undefined, FALSE, FALSE),
    Algo("murmurhash128", CatNoncryptographic, Undefined, FALSE, FALSE),
    Algo("fnv-1-64", CatNoncryptographic, Undefined, FALSE, FALSE),
    Algo("fnv-1a-64", CatNoncryptographic, Undefined, FALSE, FALSE),
    Algo("xxhash32", CatNoncryptographic, Undefined, FALSE, FALSE),
    Algo("xxhash64", CatNoncryptographic, Undefined, FALSE, FALSE),
    Algo("xxhash128", CatNoncryptographic, Undefined, FALSE, FALSE),
    Algo("cityhash", CatNoncryptographic, Undefined, FALSE, FALSE),
    Algo("farmhash", CatNoncryptographic, Undefined, FALSE, FALSE),
    Algo("metrohash", CatNoncryptographic, Undefined, FALSE, FALSE),
    Algo("t1ha", CatNoncryptographic, Undefined, FALSE, FALSE),
    Algo("highwayhash", CatModern, Undefined, FALSE, FALSE),
    Algo("siphash", CatModern, Undefined, FALSE, FALSE),
    Algo("poly1305", CatModern, Undefined, FALSE, FALSE),
    Algo("cmac", CatModern, Undefined, FALSE, FALSE),
    Algo("scrypt", CatPassword, "password", FALSE, FALSE),
    Algo("pbkdf2", CatPassword, "password", FALSE, FALSE),
    Algo("hmac", CatModern, "hmac", FALSE, FALSE),
    Algo("hkdf", CatModern, "hkdf", FALSE, FALSE),
    Algo("cubehash", CatModern, Undefined, FALSE, FALSE),
    Algo("echo", CatModern, Undefined, FALSE, FALSE),
    Algo("skein", CatModern, Undefined, FALSE, FALSE),
    Algo("blue-midnight-wish", CatModern, Undefined, FALSE, FALSE),
    Algo("grøstl", CatModern, Undefined, FALSE, FALSE),
    Algo("md2", CatCryptographic, Undefined, FALSE, FALSE),
    Algo("md4", CatCryptographic, Undefined, FALSE, FALSE)
  >>

RAW_HASH_ALGORITHMS ==
  AlgorithmsBeforeSimilarity \o SimilarityAlgorithms \o
  AlgorithmsAfterSimilarity


\* own properties first in insertion order: no key of RAW_HASH_ALGORITHMS is
\* an integer index, so Object.keys and Object.entries follow the literal
HASH_ALGORITHMS ==
  [k \in 1..Len(RAW_HASH_ALGORITHMS) |->
     [id |-> RAW_HASH_ALGORITHMS[k].id,
      category |-> RAW_HASH_ALGORITHMS[k].category,
      uiMode |-> RAW_HASH_ALGORITHMS[k].uiMode,
      supportsComparison |-> RAW_HASH_ALGORITHMS[k].supportsComparison,
      demo |-> ~RAW_HASH_ALGORITHMS[k].native]]

\* The properties every plain object inherits from Object.prototype: a
\* lookup obj[key] that finds no own property returns these, and all of
\* them are truthy (functions, or the prototype itself).
ObjectPrototypeKeys ==
  { <<"c","o","n","s","t","r","u","c","t","o","r">>,
    <<"t","o","S","t","r","i","n","g">>,
    <<"v","a","l","u","e","O","f">>,
    <<"h","a","s","O","w","n","P","r","o","p","e","r","t","y">>,
    <<"i","s","P","r","o","t","o","t","y","p","e","O","f">>,
    <<"p","r","o","p","e","r","t","y","I","s","E","n","u","m","e","r","a","b","l","e">>,
    <<"t","o","L","o","c","a","l","e","S","t","r","i","n","g">>,
    <<"_","_","p","r","o","t","o","_","_">>,
    <<"_","_","d","e","f","i","n","e","G","e","t","t","e","r","_","_">>,
    <<"_","_","d","e","f","i","n","e","S","e","t","t","e","r","_","_">>,
    <<"_","_","l","o","o","k","u","p","G","e","t","t","e","r","_","_">>,
    <<"_","_","l","o","o","k","u","p","S","e","t","t","e","r","_","_">> }

\* values a lookup can return
Str(s) == [kind |-> "string", chars |-> s]
Inherited(key) == [kind |-> "inherited", key |-> key]

\* a descriptor; its description is text, a sequence of pieces
Descriptor(d, f, c) ==
  [kind |-> "descriptor", description |-> d, features |-> f, context |-> c]

HASH_CATEGORY_DETAILS ==
  (CatCryptographic :> Descriptor(
     <<"Secure hash functions for cryptographic applications ",
            "including digital signatures, certificates, blockchain, and ",
            "secure communications.">>,
     "High security, collision resistance, preimage resistance", "use")) @@
  (CatPassword :> Descriptor(
     <<"Specialized hash functions designed for password hashing ",
            "with features like salt support and intentionally slow ",
            "computation.">>,
     "Password security, salt support, computational hardness", "use")) @@
  (CatChecksum :> Descriptor(
     <<"Error-detection algorithms for verifying data integrity. ",
            "Includes CRC variants, Fletcher checksums, and other ",
            "validation methods.">>,
     "Error detection, fast, various bit lengths", "use")) @@
  (CatSimilarity :> Descriptor(
     <<"Locality-sensitive hash functions used for similarity ",
            "detection, duplicate finding, and nearest neighbor searches.">>,
     "Similarity detection, probabilistic, specialized use cases", "use")) @@
  (CatNoncryptographic :> Descriptor(
     <<"Fast hash functions designed for non-cryptographic purposes ",
            "like hash tables, checksums, and data integrity ",
            "verification.">>,
     "High speed, good distribution, non-cryptographic", "use")) @@
  (CatSHA2 :> Descriptor(
     <<"Modern cryptographic hash functions recommended for security ",
            "applications. Includes SHA-256, SHA-384, and SHA-512 with ",
            "truncated variants.">>,
     "High security, standardized, widely adopted", "algo")) @@
  (CatSHA3 :> Descriptor(
     <<"Next-generation cryptographic hash functions based on the ",
            "Keccak algorithm. Offers better security margins and ",
            "flexible output sizes.">>,
     "Future-proof, quantum-resistant design, extendable output", "algo")) @@
  (CatSHAKE :> Descriptor(
     <<"Extendable-output functions (XOF) from the SHA-3 family. Can ",
            "produce hash outputs of any desired length.">>,
     "Variable output length, SHA-3 based, flexible", "algo")) @@
  (CatBLAKE2 :> Descriptor(
     <<"High-performance cryptographic hash functions optimized for ",
            "speed while maintaining security. Excellent for ",
            "performance-critical applications.">>,
     "Fast, secure, customizable output size", "algo")) @@
  (CatModern :> Descriptor(
     <<"Next-generation hash functions with improved security and ",
            "performance characteristics compared to older standards.">>,
     "Latest technology, enhanced security, optimized", "algo"))

\* getAlgorithmsByCategory, lines 898-906: one pass over the keys of the
\* registry in their order; a category seen for the first time becomes a
\* new key of the result (so the keys keep the order of first appearance)
\* and every id is pushed at the end of its category's list.  The result
\* is a plain object: for a category that is no key of it yet but names a
\* property of Object.prototype, !result[category] is false and the push
\* on the inherited function throws, which ends the pass.
NoGroups == [keys |-> <<>>, lists |-> <<>>, threw |-> FALSE]

\* the body of the forEach, lines 901-903
PushAlgo(res, algo) ==
  IF algo.category \in DOMAIN res.lists
  THEN [res EXCEPT !.lists[algo.category] = Append(@, algo.id)]
  ELSE IF algo.category \in ObjectPrototypeKeys
       THEN [res EXCEPT !.threw = TRUE]
       ELSE [res EXCEPT !.keys = Append(@, algo.category),
                        !.lists = @ @@ (algo.category :> <<algo.id>>)]

\* the forEach over the keys lo..hi, in order: the first half of them,
\* then the rest
RECURSIVE GroupFrom(_, _, _, _)
GroupFrom(algos, lo, hi, res) ==
  IF lo > hi \/ res.threw THEN res
  ELSE IF lo = hi THEN PushAlgo(res, algos[lo])
  ELSE LET mid == (lo + hi) \div 2
           first == GroupFrom(algos, lo, mid, res)
       IN GroupFrom(algos, mid + 1, hi, first)

getAlgorithmsByCategory_Reversed(algos) ==
  LET result == GroupFrom(algos, 1, Len(algos), NoGroups)
  IN [result EXCEPT !.lists =
        [c \in DOMAIN result.lists |->
           [i \in 1..Len(result.lists[c]) |->
              result.lists[c][Len(result.lists[c]) + 1 - i]]]]

getAlgorithmsByCategory(algos) == GroupFrom(algos, 1, Len(algos), NoGroups)

\* line 990
ALL_CATEGORY_TITLES == getAlgorithmsByCategory(HASH_ALGORITHMS).keys

\* String.prototype.toLowerCase on the letters A-Z; every other character
\* that the inputs below are made of is its own lower case
UpperLetters ==
  <<"A","B","C","D","E","F","G","H","I","J","K","L","M",
    "N","O","P","Q","R","S","T","U","V","W","X","Y","Z">>
LowerLetters ==
  <<"a","b","c","d","e","f","g","h","i","j","k","l","m",
    "n","o","p","q","r","s","t","u","v","w","x","y","z">>
DecimalDigits == {"0","1","2","3","4","5","6","7","8","9"}

Range(s) == {s[i] : i \in DOMAIN s}

toLowerCaseChar(c) ==
  IF c \in Range(UpperLetters)
  THEN LowerLetters[CHOOSE i \in DOMAIN UpperLetters : UpperLetters[i] = c]
  ELSE c

toLowerCase(s) == [i \in 1..Len(s) |-> toLowerCaseChar(s[i])]

\* the character class [a-z0-9\s-] of line 996
SlugClass == Range(LowerLetters) \cup DecimalDigits \cup WhiteSpace \cup {"-"}

\* s.replace(/[^a-z0-9\s-]/g, "")
RECURSIVE RemoveOutside(_, _)
RemoveOutside(s, class) ==
  IF s = <<>> THEN <<>>
  ELSE IF Head(s) \in class
       THEN <<Head(s)>> \o RemoveOutside(Tail(s), class)
       ELSE RemoveOutside(Tail(s), class)

\* s.replace(/X+/g, "-") for a character class X: every maximal run of
\* characters of the class becomes one hyphen
RECURSIVE ReplaceRuns(_, _)
ReplaceRuns(s, class) ==
  IF s = <<>> THEN <<>>
  ELSE IF Head(s) \notin class
       THEN <<Head(s)>> \o ReplaceRuns(Tail(s), class)
       ELSE IF Len(s) > 1 /\ s[2] \in class
            THEN ReplaceRuns(Tail(s), class)
            ELSE <<"-">> \o ReplaceRuns(Tail(s), class)

\* String.prototype.trim
RECURSIVE trimEnd(_)
trimEnd(s) ==
  IF s # <<>> /\ s[Len(s)] \in WhiteSpace
  THEN trimEnd(SubSeq(s, 1, Len(s) - 1))
  ELSE s

trim(s) == trimEnd(SkipWhite(s))

\* hashCategoryNameToSlug, lines 992-1000
hashCategoryNameToSlug_NoCollapse(categoryName) ==
  trim(ReplaceRuns(RemoveOutside(toLowerCase(categoryName), SlugClass),
                   WhiteSpace))

hashCategoryNameToSlug(categoryName) ==
  trim(ReplaceRuns(ReplaceRuns(RemoveOutside(toLowerCase(categoryName),
                                             SlugClass),
                               WhiteSpace),
                   {"-"}))

\* the reverse map of lines 1004-1007: a later category overwrites an
\* earlier one that has the same slug
RECURSIVE SlugToCategoryMap(_, _)
SlugToCategoryMap(titles, k) ==
  IF k = 0 THEN <<>>
  ELSE (hashCategoryNameToSlug(titles[k]) :> titles[k])
         @@ SlugToCategoryMap(titles, k - 1)

\* obj[key] || fallback on a plain object whose own properties are the
\* function own: the own property if there is one (the own values here are
\* non-empty names and objects, all truthy), else the property inherited
\* from Object.prototype (truthy too), else undefined and so the fallback
LookupOr(own, key, fallback) ==
  IF key \in DOMAIN own THEN own[key]
  ELSE IF key \in ObjectPrototypeKeys THEN Inherited(key)
  ELSE fallback

\* hashCategorySlugToName, lines 1002-1009
hashCategorySlugToName_SlugValued(titles, slug) ==
  LET slugToCategoryMap == SlugToCategoryMap(titles, Len(titles))
  IN LookupOr([s \in DOMAIN slugToCategoryMap |-> Str(s)], slug, Str(slug))

hashCategorySlugToName(titles, slug) ==
  LET slugToCategoryMap == SlugToCategoryMap(titles, Len(titles))
  IN LookupOr([s \in DOMAIN slugToCategoryMap |-> Str(slugToCategoryMap[s])],
              slug, Str(slug))

\* the descriptor built at lines 982-986
FallbackDetails(title) ==
  Descriptor(title \o <<" hash algorithms for various computing applications.">>,
             "Specialized hashing functionality", "algo")

\* getHashCategoryDetails, lines 980-988
getHashCategoryDetails(details, title) ==
  LookupOr(details, title, FallbackDetails(title))

\* getAllHashCategoryTitles, lines 1011-1013: a new array with the titles
getAllHashCategoryTitles(titles) == [i \in 1..Len(titles) |-> titles[i]]

\* HASH_TOOLS, lines 1019-1034: one tool for every key of the registry
HASH_TOOLS(algos) ==
  [k \in 1..Len(algos) |->
     [id |-> algos[k].id,
      category |-> algos[k].category,
      algorithm |-> algos[k].id,
      url |-> <<"/hashes/">> \o hashCategoryNameToSlug(algos[k].category)
                \o <<"/", algos[k].id>>]]

\* HashToolPageClient for a toolId, page.tsx lines 54-66 and 252-254: the
\* tool, the algorithm's configuration, the UI mode derived from it, and
\* what the component renders
OwnIds(algos) == {algos[k].id : k \in DOMAIN algos}

FindTool(algos, toolId) ==
  IF toolId \in OwnIds(algos)
  THEN LET tools == HASH_TOOLS(algos)
       IN tools[CHOOSE k \in DOMAIN tools :
                  /\ tools[k].id = toolId
                  /\ \A j \in 1..(k - 1) : tools[j].id # toolId]
  ELSE Null

\* HASH_ALGORITHMS[toolId], line 59: the registry is a plain object too
PrototypeIds ==
  {"constructor", "toString", "valueOf", "hasOwnProperty", "isPrototypeOf",
   "propertyIsEnumerable", "toLocaleString", "__proto__",
   "__defineGetter__", "__defineSetter__", "__lookupGetter__",
   "__lookupSetter__"}

NoConfig == [kind |-> "undefined"]
Own(entry) == [kind |-> "own", entry |-> entry]

ConfigOf(algos, toolId) ==
  IF toolId \in OwnIds(algos)
  THEN Own(algos[CHOOSE k \in DOMAIN algos : algos[k].id = toolId])
  ELSE IF toolId \in PrototypeIds THEN Inherited(toolId)
  ELSE NoConfig

\* algorithmConfig?.uiMode || 'standard', line 63: an inherited function
\* has no uiMode property
UiModeOf(config) ==
  IF config.kind = "own" /\ config.entry.uiMode # Undefined
  THEN config.entry.uiMode
  ELSE "standard"

HashToolPageClient(algos, toolId) ==
  LET tool == FindTool(algos, toolId)
      algorithmConfig == ConfigOf(algos, toolId)
      uiMode == UiModeOf(algorithmConfig)
  IN [tool |-> tool,
      algorithmConfig |-> algorithmConfig,
      uiMode |-> uiMode,
      isSimilarity |-> (uiMode = "similarity"),
      showVerify |-> (uiMode # "similarity"),
      rendered |-> IF tool = Null THEN "null" ELSE "page"]

\* ------------------------------------------------------ registry inputs
RegAlphabet == {"a", "B", "7", "-", " ", "!"}

\* a slug that is no category's
NotASlug == <<"n","o","-","s","u","c","h">>

NameInputs ==
  StringsOver(RegAlphabet, MaxNameLen)
    \cup Range(ALL_CATEGORY_TITLES)
    \cup {hashCategoryNameToSlug(c) : c \in Range(ALL_CATEGORY_TITLES)}
    \cup {NotASlug}
    \cup ObjectPrototypeKeys

\* the titles asked of getHashCategoryDetails: two of the curated ones,
\* a registered category's slug, and titles that are not curated
TitleInputs ==
  StringsOver(RegAlphabet, MaxNameLen)
    \cup {CatSimilarity, CatSHA2, hashCategoryNameToSlug(CatSimilarity),
          NotASlug}
    \cup ObjectPrototypeKeys

ToolIds ==
  OwnIds(HASH_ALGORITHMS) \cup {"", "nosuchalgo", "SHA256"} \cup PrototypeIds

\* --------------------------------------------------------------- tool page
\* apps/web/src/app/hashes/[category]/[id]/page.tsx.

\* the delays of the two timers, in milliseconds; the clock advances by the
\* shorter one
InputDelay == 500
ParamDelay == 300
TickMs == ParamDelay

\* the texts typed into the two inputs; both start as "Hello, World!"
Hello == <<"H","e","l","l","o",","," ","W","o","r","l","d","!">>
TextX == <<"x">>
Blank == <<" ">>
Texts1 == {Hello, TextX, Blank}
Texts2 == {Hello, Blank}

Formats == {"hex", "base64"}

\* the tools whose page is opened: five of the similarity family, a
\* standard one, and an id that is not in the registry
PageTools ==
  {"minhash", "bbitminhash", "superminhash", "simhash", "imatch", "sha256",
   "nosuchalgo"}

\* the entries of RAW_HASH_ALGORITHMS that have parameters
ToolsWithParameters ==
  {"shake128", "shake256", "blake2b512", "blake2s256", "blake3",
   "cshake128", "cshake256", "turboshake128", "turboshake256",
   "tuplehash256", "parallelhash256", "kt128", "kt256", "imatch",
   "argon2i", "argon2d", "argon2id", "scrypt", "pbkdf2", "hmac", "hkdf"}

\* those of them with a parameter that has a defaultValue: all but hmac
ToolsWithDefaults == ToolsWithParameters \ {"hmac"}

\* algorithmParams: the empty object, the defaults that the first effect
\* sets, or what the user has made of them
NoParams == "{}"
DefaultParams == "defaults"
EditedParams == "edited"

\* The hashing engine (lib/hash/compute.client) is one fixed function of
\* the tool and the text; of its outputs the page only reads the hash and
\* the format.  The hex outputs here: for the minhash family ten elements
\* for "Hello, World!" and, for the other text, seven of them the same,
\* five of them the same, or one element and a half; for simhash forty
\* bits, sixteen of them the same; for imatch and sha256 one byte.
RECURSIVE Repeat(_, _)
Repeat(s, n) == IF n = 0 THEN <<>> ELSE s \o Repeat(s, n - 1)

ElemA == <<"0","0","0","0","0","0","0","a">>
ElemF == <<"f","f","f","f","f","f","f","f">>

EngineHex(id, text) ==
  CASE id \in {"minhash", "bbitminhash", "superminhash"} /\ text = Hello ->
         Repeat(ElemA, 10)
    [] id = "minhash" /\ text # Hello ->
         Repeat(ElemA, 7) \o Repeat(ElemF, 3)
    [] id = "bbitminhash" /\ text # Hello ->
         Repeat(ElemA, 5) \o Repeat(ElemF, 5)
    [] id = "superminhash" /\ text # Hello ->
         ElemA \o <<"0","0","a","7">>
    [] id = "simhash" /\ text = Hello ->
         <<"0","0","0","0","0","0","0","0","0","0">>
    [] id = "simhash" /\ text # Hello ->
         <<"f","f","f","f","f","f","0","0","0","0">>
    [] OTHER ->
         IF text = Hello THEN <<"a","7">> ELSE <<"7","a">>

\* base64 of the bytes that a hex string of even length writes
Base64Chars ==
  <<"A","B","C","D","E","F","G","H","I","J","K","L","M","N","O","P",
    "Q","R","S","T","U","V","W","X","Y","Z","a","b","c","d","e","f",
    "g","h","i","j","k","l","m","n","o","p","q","r","s","t","u","v",
    "w","x","y","z","0","1","2","3","4","5","6","7","8","9","+","/">>

ByteAt(hex, k) == 16 * HexVal(hex[2 * k - 1]) + HexVal(hex[2 * k])

Sextet(n) == Base64Chars[n + 1]

RECURSIVE Base64From(_, _)
Base64From(hex, k) ==
  LET left == Len(hex) \div 2 - k + 1
      b1 == ByteAt(hex, k)
      b2 == IF left >= 2 THEN ByteAt(hex, k + 1) ELSE 0
      b3 == IF left >= 3 THEN ByteAt(hex, k + 2) ELSE 0
  IN IF left <= 0 THEN <<>>
     ELSE <<Sextet(b1 \div 4),
            Sextet(16 * (b1 % 4) + b2 \div 16),
            IF left >= 2 THEN Sextet(4 * (b2 % 16) + b3 \div 64) ELSE "=",
            IF left >= 3 THEN Sextet(b3 % 64) ELSE "=">>
          \o Base64From(hex, k + 3)

Base64(hex) == Base64From(hex, 1)

\* a HashResult: the fields of it that the page reads
HashResult(hex, format) ==
  [tag |-> "result",
   hash |-> IF format = "hex" THEN hex ELSE Base64(hex),
   format |-> format]

\* the engine's output for every tool, text and format of the model
EngineOutputs ==
  {[id |-> id, text |-> text, format |-> format,
    ret |-> HashResult(EngineHex(id, text), format)] :
     id \in PageTools, text \in Texts1 \cup Texts2, format \in Formats}

computeHashClient(id, text, format) ==
  (CHOOSE c \in EngineOutputs :
     c.id = id /\ c.text = text /\ c.format = format).ret

\* the comparator is given the hex outputs, whatever the output format
computeSimilarityComparison(id, text1, text2, format) ==
  [result1 |-> computeHashClient(id, text1, format),
   result2 |-> computeHashClient(id, text2, format),
   hash1 |-> EngineHex(id, text1),
   hash2 |-> EngineHex(id, text2)]

\* what compareSimilarityHashes(tool.id, comparison.hash1, comparison.hash2)
\* of line 115 resolves to, for every tool and pair of texts of the model
Comparisons ==
  {[id |-> id, text1 |-> text1, text2 |-> text2,
    ret |-> compareSimilarityHashes(id, EngineHex(id, text1),
                                    EngineHex(id, text2), 0).ret] :
     id \in PageTools, text1 \in Texts1, text2 \in Texts2}

Compared(id, text1, text2) ==
  (CHOOSE c \in Comparisons :
     c.id = id /\ c.text1 = text1 /\ c.text2 = text2).ret

IsBlank(text) == trim(text) = <<>>

\* the guards of computeHash, lines 97, 101 and 134: whether a call goes on
\* to the engine; lookup is what lines 54-67 found for the tool id
Computes(page, text1, text2) ==
  /\ page.tool # Null
  /\ IF page.isSimilarity
     THEN ~IsBlank(text1) /\ ~IsBlank(text2)
     ELSE ~IsBlank(text1)

\* the check of the input timer's callback, lines 212-220
TimerCalls(page, text1, text2) ==
  IF page.isSimilarity
  THEN ~IsBlank(text1) /\ ~IsBlank(text2)
  ELSE ~IsBlank(text1)

\* the branches of compareSimilarityHashes that call the SDK outside a
\* try block: what the SDK throws, the call rejects with
MayThrow(id) == id \in {"simhash", "nilsimsa"}

\* verifyHash, lines 168-191
IsHexFormat(s) == s # <<>> /\ \A i \in DOMAIN s : s[i] \in HexDigit

Base64Class == Range(Base64Chars)

\* /^[A-Za-z0-9+/]*={0,2}$/
IsBase64Format(s) ==
  \E pad \in 0..2 :
    /\ pad <= Len(s)
    /\ \A i \in 1..(Len(s) - pad) : s[i] \in Base64Class
    /\ \A i \in (Len(s) - pad + 1)..Len(s) : s[i] = "="

Verdict(match, reason) ==
  [tag |-> "verdict", match |-> match, reason |-> reason]

verifyHash_CaseSensitive(res, expected) ==
  IF res = Null \/ IsBlank(expected) THEN Null
  ELSE IF ~IsHexFormat(expected) /\ ~IsBase64Format(expected)
       THEN Verdict(FALSE, "Invalid hash format (must be hex or base64)")
       ELSE LET match == res.hash = expected
            IN Verdict(match,
                       IF match THEN Undefined ELSE "Hash values don't match")

verifyHash(res, expected) ==
  IF res = Null \/ IsBlank(expected) THEN Null
  ELSE IF ~IsHexFormat(expected) /\ ~IsBase64Format(expected)
       THEN Verdict(FALSE, "Invalid hash format (must be hex or base64)")
       ELSE LET match == toLowerCase(res.hash) = toLowerCase(expected)
            IN Verdict(match,
                       IF match THEN Undefined ELSE "Hash values don't match")

\* the effect of lines 243-250
VerifyEffect(expected, res, showVerify) ==
  IF ~IsBlank(expected) /\ res # Null /\ showVerify
  THEN verifyHash(res, expected)
  ELSE Null

\* the expected hashes typed: blank ones, the hex output for
\* "Hello, World!" in capitals, another hash, the base64 output, and a
\* text that is neither hex nor base64
ExpectedInputs ==
  { <<>>, Blank, <<"A","7">>, <<"7","a">>, <<"p","w","=","=">>,
    <<"a","7","!">> }

\* s > n/d for a JavaScript number s that may be NaN
GreaterThan(s, n, d) == s.den > 0 /\ s.num * d > n * s.den

\* the label of lines 569-573
Label_AtLeast(similarity) ==
  IF GreaterThan(similarity, 7, 10) \/ FracEq(similarity, Frac(7, 10))
  THEN "high"
  ELSE IF GreaterThan(similarity, 4, 10) THEN "moderate"
  ELSE "low"

Label(similarity) ==
  IF GreaterThan(similarity, 7, 10) THEN "high"
  ELSE IF GreaterThan(similarity, 4, 10) THEN "moderate"
  ELSE "low"

\* the comparison card, lines 527-578: what of it is rendered, each part a
\* set that is empty when the part is not rendered
NoCard == [shown |-> FALSE, score |-> {}, distance |-> {}, label |-> {}]

ComparisonCard_Zero(isSimilarity, comparison) ==
  IF isSimilarity
  THEN [shown |-> TRUE,
        score |-> IF comparison = Null THEN {Frac(0, 1)}
                  ELSE IF "similarity" \in DOMAIN comparison
                  THEN {comparison.similarity} ELSE {},
        distance |-> IF comparison # Null /\ "distance" \in DOMAIN comparison
                     THEN {comparison.distance} ELSE {},
        label |-> IF comparison # Null /\ "similarity" \in DOMAIN comparison
                  THEN {Label(comparison.similarity)} ELSE {}]
  ELSE NoCard

ComparisonCard(isSimilarity, comparison) ==
  IF isSimilarity /\ comparison # Null
  THEN [shown |-> TRUE,
        score |-> IF "similarity" \in DOMAIN comparison
                  THEN {comparison.similarity} ELSE {},
        distance |-> IF "distance" \in DOMAIN comparison
                     THEN {comparison.distance} ELSE {},
        label |-> IF "similarity" \in DOMAIN comparison
                  THEN {Label(comparison.similarity)} ELSE {}]
  ELSE NoCard

\* --------------------------------------------------------------- the state
VARIABLES
  algorithm,   \* the arguments of the latest call of compareSimilarityHashes
  hash1,
  hash2,
  score,       \* what sdk.nilsimsaCompare returns for these arguments
  result,      \* the value the call's promise resolved to
  sdkCalls     \* the SDK functions the call used, in order

\* Several calls in flight at once, as a host that runs them concurrently
\* would have them.
VARIABLES
  calls,       \* per call: where it is, its arguments and what it returned
  locals,      \* the cells holding the loop variables of hammingDistance
  sdkNilsimsa  \* the score sdk.nilsimsaCompare gives for each pair of inputs

parVars == <<calls, locals, sdkNilsimsa>>

\* The registry of hash-metadata.ts as the loaded module holds it, and the
\* value that the latest registry call gave to its caller.
VARIABLES
  algorithms,       \* HASH_ALGORITHMS
  categoryDetails,  \* HASH_CATEGORY_DETAILS
  categoryTitles,   \* ALL_CATEGORY_TITLES
  held              \* the latest call, its argument and the value returned

tables == <<algorithms, categoryDetails, categoryTitles>>
regVars == <<tables, held>>

\* The page of one tool: the component's state, the computeHash
\* invocations that have started and not finished, and the pending timers.
VARIABLES
  toolId,           \* resolvedParams.id
  lookup,           \* tool, algorithmConfig, uiMode, isSimilarity (memoised)
  inputText,
  inputText2,
  outputFormat,
  algorithmParams,
  hashResult,       \* the state "result" of the component
  hashResult2,      \* result2
  comparisonResult,
  expectedHash,
  verifyResult,
  isComputing,
  toasted,          \* an error toast is on the screen
  invocations,      \* per slot: a computeHash call in flight, or none
  lastStart,        \* the invocation started last, and how it ended
  lastComparison,   \* what the comparison finished last returned
  inputTimers,      \* the age of every pending 500 ms timer
  paramTimers,      \* the age of every pending 300 ms timer
  sinceChange,      \* time since an input text last changed (or the mount)
  edits             \* how many times the user has changed an input

shownVars == <<hashResult, hashResult2, comparisonResult>>
inputVars == <<inputText, inputText2, outputFormat, algorithmParams>>
timerVars == <<inputTimers, paramTimers, sinceChange>>
pageVars == <<toolId, lookup, inputVars, shownVars, expectedHash,
              verifyResult, isComputing, toasted, invocations, lastStart,
              lastComparison, timerVars, edits>>

vars == <<algorithm, hash1, hash2, score, result, sdkCalls, parVars, regVars,
          pageVars>>

\* most calls in flight at once
NCalls == 2

NoCall == [pc |-> "idle", alg |-> "", h1 |-> <<>>, h2 |-> <<>>,
           ret |-> [tag |-> "none"]]
NoLocals == [i |-> 0, distance |-> 0]

\* no call in flight
ParQuiet ==
  /\ calls = [c \in 1..NCalls |-> NoCall]
  /\ locals = [c \in 1..NCalls |-> NoLocals]
  /\ sdkNilsimsa = <<>>

NothingHeld == [op |-> "none"]

\* the module is loaded and no registry call has been made
RegQuiet ==
  /\ algorithms = HASH_ALGORITHMS
  /\ categoryDetails = HASH_CATEGORY_DETAILS
  /\ categoryTitles = ALL_CATEGORY_TITLES
  /\ held = NothingHeld

CmpInit ==
  /\ algorithm = ""
  /\ hash1 = <<>>
  /\ hash2 = <<>>
  /\ score = 0
  /\ result = [tag |-> "none"]
  /\ sdkCalls = <<>>

\* most computeHash invocations in flight at once
MaxInFlight == 2

\* most changes the user makes to the inputs of a page
MaxEdits == 2

Free == [pc |-> "free"]
NoStart == [outcome |-> "none"]
NoComparison == [tag |-> "none"]

\* no page is open
PageQuiet ==
  /\ toolId = ""
  /\ lookup = [tool |-> Null]
  /\ inputText = <<>>
  /\ inputText2 = <<>>
  /\ outputFormat = "hex"
  /\ algorithmParams = NoParams
  /\ hashResult = Null
  /\ hashResult2 = Null
  /\ comparisonResult = Null
  /\ expectedHash = <<>>
  /\ verifyResult = Null
  /\ isComputing = FALSE
  /\ toasted = FALSE
  /\ invocations = [i \in 1..MaxInFlight |-> Free]
  /\ lastStart = NoStart
  /\ lastComparison = NoComparison
  /\ inputTimers = <<>>
  /\ paramTimers = <<>>
  /\ sinceChange = 0
  /\ edits = 0

\* the page of tool id after its first render and the effects of the
\* mount: lines 41-52 for the state, 70-80 for the default parameters,
\* 209-241 for the timers
Mounted(id) ==
  /\ toolId = id
  /\ lookup = HashToolPageClient(HASH_ALGORITHMS, id)
  /\ inputText = Hello
  /\ inputText2 = Hello
  /\ outputFormat = "hex"
  /\ algorithmParams = IF id \in ToolsWithDefaults THEN DefaultParams
                       ELSE NoParams
  /\ hashResult = Null
  /\ hashResult2 = Null
  /\ comparisonResult = Null
  /\ expectedHash = <<>>
  /\ verifyResult = Null
  /\ isComputing = FALSE
  /\ toasted = FALSE
  /\ invocations = [i \in 1..MaxInFlight |-> Free]
  /\ lastStart = NoStart
  /\ lastComparison = NoComparison
  /\ inputTimers = <<0>>
  /\ paramTimers = IF id \in ToolsWithDefaults THEN <<0>> ELSE <<>>
  /\ sinceChange = 0
  /\ edits = 0

Init ==
  /\ CmpInit
  /\ ParQuiet
  /\ RegQuiet
  /\ PageQuiet

\* A request and its result exist for one call only: a call starts from
\* the state in which none is held.
Idle == result.tag = "none"

\* one call of compareSimilarityHashes
Call(alg, h1, h2, s) ==
  LET out == compareSimilarityHashes(alg, h1, h2, s)
  IN /\ algorithm' = alg
     /\ hash1' = h1
     /\ hash2' = h2
     /\ score' = s
     /\ result' = out.ret
     /\ sdkCalls' = out.calls
     /\ UNCHANGED <<parVars, regVars, pageVars>>

\* case "simhash": two fingerprints of the same width
CallSimHash ==
  /\ Idle
  /\ \E h1, h2 \in HexStrings :
       /\ Len(h1) = Len(h2)
       /\ Call("simhash", h1, h2, 0)

\* case "minhash" / "bbitminhash" / "superminhash": two signatures with
\* the same number of elements, or at least one string that is no signature
CallMinHash ==
  /\ Idle
  /\ \E alg \in MinHashIds, h1, h2 \in Signatures \cup Ragged :
       /\ \/ h1 \in Ragged
          \/ h2 \in Ragged
          \/ Len(h1) = Len(h2)
       /\ Call(alg, h1, h2, 0)

\* case "nilsimsa"
CallNilsimsa ==
  /\ Idle
  /\ \E h1, h2 \in StringsOver(HexAlphabet, 1) :
       \E s \in nilsimsaCompare(h1, h2) :
         Call("nilsimsa", h1, h2, s)

\* case "imatch"
CallIMatch ==
  /\ Idle
  /\ \E h1, h2 \in Strings : Call("imatch", h1, h2, 0)

\* default
CallDefault ==
  /\ Idle
  /\ \E alg \in UnknownIds, h1, h2 \in Strings : Call(alg, h1, h2, 0)

\* the caller drops the request and its result after use
Discard ==
  /\ ~Idle
  /\ algorithm' = ""
  /\ hash1' = <<>>
  /\ hash2' = <<>>
  /\ score' = 0
  /\ result' = [tag |-> "none"]
  /\ sdkCalls' = <<>>
  /\ UNCHANGED <<parVars, regVars, pageVars>>

Next ==
  \/ Discard
  \/ CallSimHash
  \/ CallMinHash
  \/ CallNilsimsa
  \/ CallIMatch
  \/ CallDefault

Spec == Init /\ [][Next]_vars

\* ------------------------------------------------------------ properties
Returned == ~Idle
Has(field) == field \in DOMAIN result

BespokeIds == {"simhash", "nilsimsa"} \cup MinHashIds
GenericCall == Returned /\ algorithm \notin BespokeIds
MinHashCall == Returned /\ algorithm \in MinHashIds

IsOne(x) == x.den # 0 /\ x.num = x.den
IsZero(x) == x.den # 0 /\ x.num = 0
IsOneHalf(x) == x.den # 0 /\ 2 * x.num = x.den
InUnit(x) ==
  /\ x.den > 0
  /\ 0 <= x.num
  /\ x.num <= x.den

AllHex(s) == \A i \in 1..Len(s) : s[i] \in HexDigit
IsSignature(s) == Len(s) % ChunkLen = 0

\* C1: the generic metric, given two strings of different lengths, raises
\* the LengthMismatch signal and does not return the sentinel distance -1.
C1_LengthMismatchIsRaised ==
  (GenericCall /\ Len(hash1) # Len(hash2)) =>
    /\ result.tag = "error"
    /\ ~(Has("distance") /\ result.distance = 0 - 1)

\* C2: in the MinHash family, when the length of either input is not a
\* multiple of 8 the call returns null, without a fault, without a call of
\* the Jaccard function and without a similarity.
C2_RaggedMinHashIsNull ==
  (MinHashCall /\ (~IsSignature(hash1) \/ ~IsSignature(hash2))) =>
    /\ result = Null
    /\ \A i \in 1..Len(sdkCalls) : sdkCalls[i] # "minhashJaccard"
    /\ ~Has("similarity")

C2_Witness ==
  /\ MinHashCall
  /\ hash1 # <<>>
  /\ IsSignature(hash1)
  /\ ~IsSignature(hash2)
  /\ result = Null

\* C3: in the metrics that parse hex (MinHash and the generic metric), an
\* input with a character that is no hex digit yields a failure signal and
\* never a number computed from a substituted value.
C3_NonHexIsRejected ==
  ((GenericCall \/ MinHashCall) /\ (~AllHex(hash1) \/ ~AllHex(hash2))) =>
    /\ result.tag \in {"null", "error"}
    /\ ~Has("distance")
    /\ ~Has("similarity")

\* C4: compareNilsimsa returns similarity = (s + 128) / 256 and
\* distance = 128 - s for the raw score s; 128 gives 1 and 0, -128 gives 0
\* and 256, 0 gives 0.5 and 128.
C4_NilsimsaNormalization ==
  (Returned /\ algorithm = "nilsimsa") =>
    /\ Has("similarity") /\ Has("distance")
    /\ FracEq(result.similarity, Frac(score + 128, 256))
    /\ result.distance = 128 - score
    /\ score = 128 => (IsOne(result.similarity) /\ result.distance = 0)
    /\ score = 0 - 128 => (IsZero(result.similarity) /\ result.distance = 256)
    /\ score = 0 => (IsOneHalf(result.similarity) /\ result.distance = 128)

C4_Witness ==
  /\ Returned
  /\ algorithm = "nilsimsa"
  /\ score = 0
  /\ result.distance = 128
  /\ IsOneHalf(result.similarity)

\* C5: every id other than simhash, minhash, bbitminhash, superminhash and
\* nilsimsa goes to the generic Hamming metric, and never to an error or a
\* null result.
C5_UnknownIdIsGeneric ==
  GenericCall =>
    /\ result.tag = "object"
    /\ DOMAIN result = {"tag", "distance"}
    /\ result.distance = hammingDistance(hash1, hash2)
    /\ sdkCalls = <<>>

C5_Witness ==
  /\ Returned
  /\ algorithm = "nosuchalgo"
  /\ hash1 # hash2
  /\ result.tag = "object"
  /\ result.distance > 0

\* C6 as stated: every return carries a distance or a similarity, and a
\* result without both is an error, never an empty or null result.
C6_NeverNullOrEmpty ==
  Returned =>
    /\ result.tag # "null"
    /\ result.tag = "object" => (Has("distance") \/ Has("similarity"))

\* C6 as amended: every object returned carries a distance or a similarity;
\* the absent result is the value null, not an error, and only the MinHash
\* family returns it.
C6_NullOnlyFromMinHash ==
  Returned =>
    /\ result.tag \in {"object", "null"}
    /\ result.tag = "object" => (Has("distance") \/ Has("similarity"))
    /\ result.tag = "null" => algorithm \in MinHashIds

C6_Witness ==
  /\ MinHashCall
  /\ result.tag = "null"
  /\ ~Has("distance")
  /\ ~Has("similarity")

\* C7: a similarity returned by compareSimilarityHashes lies in [0, 1].
C7_SimilarityInUnit ==
  (Returned /\ Has("similarity")) => InUnit(result.similarity)

\* C8: the Hamming distance of two hex strings of the same length does not
\* depend on their order.
C8_HammingSymmetric ==
  (GenericCall /\ Len(hash1) = Len(hash2) /\ AllHex(hash1) /\ AllHex(hash2)) =>
    result.distance = hammingDistance(hash2, hash1)

C8_Witness ==
  /\ GenericCall
  /\ Len(hash1) = Len(hash2)
  /\ AllHex(hash1) /\ AllHex(hash2)
  /\ hash1 # hash2
  /\ result.distance > 0

\* C9: for every hex string h, comparing h with h under simhash yields
\* distance 0 and similarity 1.
C9_SimHashIdentical ==
  (Returned /\ algorithm = "simhash" /\ hash1 = hash2 /\ AllHex(hash1)) =>
    /\ Has("distance") /\ result.distance = 0
    /\ Has("similarity") /\ IsOne(result.similarity)

\* the eight characters of element i of a signature string
Element(s, i) == SubSeq(s, (i - 1) * ChunkLen + 1, i * ChunkLen)

\* two hex strings of the same length that write the same number
SameNumber(a, b) == \A j \in 1..Len(a) : HexVal(a[j]) = HexVal(b[j])

EqualPositions(a, b) ==
  Cardinality({i \in 1..(Len(a) \div ChunkLen) :
                 SameNumber(Element(a, i), Element(b, i))})

C11_FieldsByBranch ==
  (Returned /\ result.tag = "object") =>
    DOMAIN result =
      IF algorithm \in {"simhash", "nilsimsa"}
        THEN {"tag", "distance", "similarity"}
      ELSE IF algorithm \in MinHashIds
        THEN {"tag", "similarity"}
      ELSE {"tag", "distance"}

C11_Witness ==
  /\ Returned
  /\ algorithm = "imatch"
  /\ hash1 # <<>>
  /\ Len(hash1) = Len(hash2)
  /\ DOMAIN result = {"tag", "distance"}

\* the bits set in the nibble that a hex digit writes
NibbleBits(c) == {k \in 0..3 : Bit(HexVal(c), k) = 1}
DifferingBits(c, d) ==
  Cardinality((NibbleBits(c) \ NibbleBits(d)) \cup
              (NibbleBits(d) \ NibbleBits(c)))

RECURSIVE DifferingBitsFrom(_, _, _)
DifferingBitsFrom(a, b, i) ==
  IF i > Len(a) THEN 0
  ELSE DifferingBits(a[i], b[i]) + DifferingBitsFrom(a, b, i + 1)

\* C23: for hex strings of the same length n the generic distance is the
\* number of bits in which the two strings differ, nibble by nibble; it is
\* between 0 and 4n, and it is 0 when the strings are equal up to the case
\* of the hex digits.
C23_HammingIsBitCount ==
  (GenericCall /\ Len(hash1) = Len(hash2) /\ AllHex(hash1) /\ AllHex(hash2)) =>
    /\ DOMAIN result = {"tag", "distance"}
    /\ result.distance = DifferingBitsFrom(hash1, hash2, 1)
    /\ result.distance \in 0..(4 * Len(hash1))
    /\ SameNumber(hash1, hash2) => result.distance = 0

C23_Witness ==
  /\ GenericCall
  /\ hash1 = <<"7", "a", "A">>
  /\ hash2 = <<"a", "A", "7">>
  /\ result.distance = 3 + 0 + 3

\* the number that four hex digits write
Digits4(s, from) ==
  4096 * HexVal(s[from]) + 256 * HexVal(s[from + 1])
    + 16 * HexVal(s[from + 2]) + HexVal(s[from + 3])

\* C24: for a hex string of 8k characters parseMinHashSignature gives k
\* elements, the i-th being the unsigned number that characters 8i..8i+7
\* write in base 16, whole (its high and its low half), and the empty
\* string gives the empty sequence.
C24_SignatureElements ==
  (MinHashCall /\ IsSignature(hash1) /\ AllHex(hash1)) =>
    LET parsed == parseMinHashSignature(hash1)
    IN /\ ~parsed.isNull
       /\ Len(parsed.sig) = Len(hash1) \div ChunkLen
       /\ \A i \in 1..Len(parsed.sig) :
            /\ parsed.sig[i].hi = Digits4(Element(hash1, i), 1)
            /\ parsed.sig[i].lo = Digits4(Element(hash1, i), 5)
            /\ parsed.sig[i].hi \in 0..(Half - 1)
            /\ parsed.sig[i].lo \in 0..(Half - 1)
       /\ hash1 = <<>> => parsed.sig = <<>>

C24_Witness ==
  /\ MinHashCall
  /\ hash1 = <<"f","f","f","f","f","f","f","f">>
               \o <<"0","0","0","0","0","0","0","A">>
  /\ parseMinHashSignature(hash1).sig = <<Word(Half - 1, Half - 1), Word(0, 10)>>

\* ------------------------------------------------------- concurrent calls
cmpVars == <<algorithm, hash1, hash2, score, result, sdkCalls>>

Str2(a, b) == <<a, b>>
Request(a, x, y) == [alg |-> a, h1 |-> x, h2 |-> y]

\* the requests the concurrent calls are made with: every branch of the
\* dispatcher, the generic metric with and without its loop
ParRequests ==
  { Request("imatch", Str2("7", "a"), Str2("a", "a")),
    Request("imatch", <<"7">>, Str2("7", "a")),
    Request("nosuchalgo", Str2("g", "7"), Str2("7", "A")),
    Request("simhash", Str2("7", "a"), Str2("7", "7")),
    Request("minhash", <<"0","0","0","0","0","0","0","a">>,
                       <<"0","0","0","0","0","0","0","A">>),
    Request("minhash", <<"a">>, <<"a">>),
    Request("nilsimsa", <<"7">>, <<"a">>),
    Request("nilsimsa", <<"7">>, <<"7">>) }

NilsimsaPairs ==
  {<<r.h1, r.h2>> : r \in {q \in ParRequests : q.alg = "nilsimsa"}}

\* the SDK is one fixed function; which one is not known
ParScores == {0 - NilsimsaMax, 0, NilsimsaMax}
NilsimsaTables ==
  {t \in [NilsimsaPairs -> ParScores] :
     \A p \in NilsimsaPairs : t[p] \in nilsimsaCompare(p[1], p[2])}

ScoreOf(t, r) == IF r.alg = "nilsimsa" THEN t[<<r.h1, r.h2>>] ELSE 0

\* what the call returns when it runs alone
Alone(t, r) == compareSimilarityHashes(r.alg, r.h1, r.h2, ScoreOf(t, r)).ret

\* "let distance" and "let i" of hammingDistance with module scope: one
\* cell for all calls
LocalsOf_Module(c) == 1

\* "let distance" and "let i" are locals of one invocation of
\* hammingDistance: every call has cells of its own
LocalsOf(c) == c

ParInit ==
  /\ CmpInit
  /\ calls = [c \in 1..NCalls |-> NoCall]
  /\ locals = [c \in 1..NCalls |-> NoLocals]
  /\ sdkNilsimsa \in NilsimsaTables
  /\ RegQuiet
  /\ PageQuiet

\* the call reaches the loop of hammingDistance: the default or imatch
\* branch, with two strings of the same length
EntersLoop(r) == r.alg \notin BespokeIds /\ Len(r.h1) = Len(r.h2)

\* the call starts and runs up to the loop of hammingDistance
ParInvokeGeneric(c) ==
  /\ calls[c].pc = "idle"
  /\ \E r \in ParRequests :
       /\ EntersLoop(r)
       /\ calls' = [calls EXCEPT ![c] =
                      [pc |-> "loop", alg |-> r.alg, h1 |-> r.h1,
                       h2 |-> r.h2, ret |-> [tag |-> "none"]]]
       /\ locals' = [locals EXCEPT ![LocalsOf(c)] = NoLocals]
  /\ UNCHANGED <<cmpVars, regVars, pageVars, sdkNilsimsa>>

\* one iteration of the loop of hammingDistance
ParIterate(c) ==
  LET me == calls[c]
      my == locals[LocalsOf(c)]
  IN /\ me.pc = "loop"
     /\ my.i < Len(me.h1)
     /\ locals' = [locals EXCEPT ![LocalsOf(c)] =
          [i |-> my.i + 1,
           distance |-> my.distance +
              XorBits(ToInt32Low(parseInt16(<<me.h1[my.i + 1]>>)),
                      ToInt32Low(parseInt16(<<me.h2[my.i + 1]>>)))]]
     /\ UNCHANGED <<cmpVars, regVars, pageVars, calls, sdkNilsimsa>>

\* the loop ends and the call returns { distance }
ParReturnGeneric(c) ==
  LET me == calls[c]
      my == locals[LocalsOf(c)]
  IN /\ me.pc = "loop"
     /\ my.i >= Len(me.h1)
     /\ calls' = [calls EXCEPT ![c].pc = "done",
                               ![c].ret = [tag |-> "object",
                                           distance |-> my.distance]]
     /\ UNCHANGED <<cmpVars, regVars, pageVars, locals, sdkNilsimsa>>

\* every other call: a bespoke branch, or the early return of
\* hammingDistance
ParInvokeOther(c) ==
  /\ calls[c].pc = "idle"
  /\ \E r \in ParRequests :
       /\ ~EntersLoop(r)
       /\ calls' = [calls EXCEPT ![c] =
                      [pc |-> "done", alg |-> r.alg, h1 |-> r.h1,
                       h2 |-> r.h2, ret |-> Alone(sdkNilsimsa, r)]]
  /\ UNCHANGED <<cmpVars, regVars, pageVars, locals, sdkNilsimsa>>

ParNext ==
  \E c \in 1..NCalls :
    \/ ParInvokeGeneric(c)
    \/ ParIterate(c)
    \/ ParReturnGeneric(c)
    \/ ParInvokeOther(c)

SpecPar == ParInit /\ [][ParNext]_vars

\* C12: whatever the interleaving of the calls in flight, each call returns
\* what it returns when run alone, which depends on its three arguments (and
\* the SDK) only: no call works on state that another call writes.
C12_CallsIndependent ==
  \A c \in 1..NCalls :
    calls[c].pc = "done" =>
      calls[c].ret =
        Alone(sdkNilsimsa, Request(calls[c].alg, calls[c].h1, calls[c].h2))

C12_Witness ==
  /\ calls[1].pc = "done"
  /\ calls[2].pc = "done"
  /\ calls[1].alg = "imatch"
  /\ calls[2].alg = "nosuchalgo"
  /\ calls[1].ret.distance = 3
  /\ calls[2].ret.distance = 6

\* ------------------------------------------------------- registry calls
\* A caller makes one registry call, holds what it returned, may write to
\* that value if it is an object or an array, and drops it.  shared: the
\* value held is the very object that the registry stores, not a new one.
Holding(op, arg, val, shared) ==
  held' = [op |-> op, arg |-> arg, val |-> val, shared |-> shared,
           edited |-> FALSE]

NoneHeld == held = NothingHeld

RegNameToSlug ==
  /\ NoneHeld
  /\ \E categoryName \in NameInputs :
       Holding("hashCategoryNameToSlug", categoryName,
               Str(hashCategoryNameToSlug(categoryName)), FALSE)
  /\ UNCHANGED <<cmpVars, parVars, pageVars, tables>>

RegSlugToName ==
  /\ NoneHeld
  /\ \E slug \in NameInputs :
       Holding("hashCategorySlugToName", slug,
               hashCategorySlugToName(categoryTitles, slug), FALSE)
  /\ UNCHANGED <<cmpVars, parVars, pageVars, tables>>

\* a category of the registry to its slug and back, as the URL of a tool
\* (line 1030) and the page reading it do
RegRoundTrip ==
  /\ NoneHeld
  /\ \E k \in DOMAIN algorithms :
       Holding("roundTrip", algorithms[k].category,
               hashCategorySlugToName(categoryTitles,
                 hashCategoryNameToSlug(algorithms[k].category)),
               FALSE)
  /\ UNCHANGED <<cmpVars, parVars, pageVars, tables>>

\* line 982: the object stored for a curated title is returned itself
RegDetails ==
  /\ NoneHeld
  /\ \E title \in TitleInputs :
       Holding("getHashCategoryDetails", title,
               getHashCategoryDetails(categoryDetails, title),
               title \in DOMAIN categoryDetails)
  /\ UNCHANGED <<cmpVars, parVars, pageVars, tables>>

RegByCategory ==
  /\ NoneHeld
  /\ Holding("getAlgorithmsByCategory", <<>>,
             getAlgorithmsByCategory(algorithms), FALSE)
  /\ UNCHANGED <<cmpVars, parVars, pageVars, tables>>

RegAllTitles ==
  /\ NoneHeld
  /\ Holding("getAllHashCategoryTitles", <<>>,
             getAllHashCategoryTitles(categoryTitles), FALSE)
  /\ UNCHANGED <<cmpVars, parVars, pageVars, tables>>

RegPage ==
  /\ NoneHeld
  /\ \E id \in ToolIds :
       Holding("HashToolPageClient", id,
               HashToolPageClient(algorithms, id), FALSE)
  /\ UNCHANGED <<cmpVars, parVars, pageVars, tables>>

Edited == <<"e","d","i","t","e","d">>

\* the caller's write to the object or array it holds
EditOf(h) ==
  CASE h.op = "getHashCategoryDetails" ->
         [h.val EXCEPT !.description = <<"edited">>]
    [] h.op = "getAlgorithmsByCategory" ->
         [h.val EXCEPT !.lists[CatSimilarity] = Append(@, "edited")]
    [] h.op = "getAllHashCategoryTitles" ->
         Append(h.val, Edited)

Mutable(h) ==
  \/ h.op \in {"getAlgorithmsByCategory", "getAllHashCategoryTitles"}
  \/ h.op = "getHashCategoryDetails" /\ h.val.kind = "descriptor"

\* a write through a shared reference is a write to the stored object
RegMutate ==
  /\ ~NoneHeld
  /\ Mutable(held)
  /\ ~held.edited
  /\ held' = [held EXCEPT !.val = EditOf(held), !.edited = TRUE]
  /\ categoryDetails' =
       IF held.shared
       THEN [categoryDetails EXCEPT ![held.arg] = EditOf(held)]
       ELSE categoryDetails
  /\ UNCHANGED <<cmpVars, parVars, pageVars, algorithms, categoryTitles>>

RegDrop ==
  /\ ~NoneHeld
  /\ held' = NothingHeld
  /\ UNCHANGED <<cmpVars, parVars, pageVars, tables>>

RegNext ==
  \/ RegNameToSlug
  \/ RegSlugToName
  \/ RegRoundTrip
  \/ RegDetails
  \/ RegByCategory
  \/ RegAllTitles
  \/ RegPage
  \/ RegMutate
  \/ RegDrop

SpecReg == Init /\ [][RegNext]_vars

HeldFrom(op) == held.op = op

RegisteredSlugs ==
  {hashCategoryNameToSlug(algorithms[k].category) : k \in DOMAIN algorithms}

\* C13: for every category name c that occurs in the registry,
\* hashCategorySlugToName(hashCategoryNameToSlug(c)) is c: both when the
\* two conversions are chained and when the slug of c is given as such.
C13_SlugRoundTrip ==
  /\ HeldFrom("roundTrip") => held.val = Str(held.arg)
  /\ HeldFrom("hashCategorySlugToName") =>
       \A k \in DOMAIN algorithms :
         held.arg = hashCategoryNameToSlug(algorithms[k].category)
           => held.val = Str(algorithms[k].category)

C13_Witness ==
  /\ HeldFrom("roundTrip")
  /\ held.arg = CatNoncryptographic
  /\ held.val = Str(CatNoncryptographic)
  /\ hashCategoryNameToSlug(held.arg) # held.arg

\* C14: for a slug that is the slug of no registered category,
\* hashCategorySlugToName returns the slug itself, unchanged.
C14_UnknownSlugUnchanged ==
  (HeldFrom("hashCategorySlugToName") /\ held.arg \notin RegisteredSlugs)
    => held.val = Str(held.arg)

LowerDigitHyphen == Range(LowerLetters) \cup DecimalDigits \cup {"-"}

\* C15: what hashCategoryNameToSlug returns is made of lower-case letters,
\* digits and hyphens only, has no two hyphens in a row, and is its own
\* slug.
C15_SlugShape ==
  HeldFrom("hashCategoryNameToSlug") =>
    LET slug == held.val.chars
    IN /\ \A i \in DOMAIN slug : slug[i] \in LowerDigitHyphen
       /\ \A i \in 1..(Len(slug) - 1) : ~(slug[i] = "-" /\ slug[i + 1] = "-")
       /\ hashCategoryNameToSlug(slug) = slug

C15_Witness ==
  /\ HeldFrom("hashCategoryNameToSlug")
  /\ held.arg = <<"B", " ", "-">>
  /\ held.val = Str(<<"b", "-">>)

Count(s, x) == Cardinality({i \in DOMAIN s : s[i] = x})
IndexOf(algos, id) == CHOOSE k \in DOMAIN algos : algos[k].id = id

\* C16: getAlgorithmsByCategory lists every id of the registry once, in the
\* list of its own category and in no other list, lists nothing else, and
\* keeps the ids of a list in the order of their registration.
C16_ListedInOwnCategory ==
  (HeldFrom("getAlgorithmsByCategory") /\ ~held.edited) =>
    LET lists == held.val.lists
    IN /\ ~held.val.threw
       /\ \A k \in DOMAIN algorithms :
            /\ algorithms[k].category \in DOMAIN lists
            /\ \A c \in DOMAIN lists :
                 Count(lists[c], algorithms[k].id) =
                   IF c = algorithms[k].category THEN 1 ELSE 0
       /\ \A c \in DOMAIN lists :
            /\ \A i \in DOMAIN lists[c] : lists[c][i] \in OwnIds(algorithms)
            /\ \A i, j \in DOMAIN lists[c] :
                 i < j => IndexOf(algorithms, lists[c][i])
                            < IndexOf(algorithms, lists[c][j])

C16_Witness ==
  /\ HeldFrom("getAlgorithmsByCategory")
  /\ ~held.edited
  /\ held.val.lists[CatSimilarity] =
       <<"simhash", "minhash", "bbitminhash", "superminhash", "nilsimsa",
         "imatch">>
  /\ held.val.lists[CatCryptographic][1] = "md5"
  /\ Len(held.val.lists[CatCryptographic]) > 2

AbsentId == held.arg \notin OwnIds(algorithms)

\* C17: for an id that is not in the registry the lookup finds nothing (no
\* tool, no configuration) and nothing is put in its place: no UI mode is
\* derived for the absent algorithm.
C17_AbsentIdHasNoDefault ==
  (HeldFrom("HashToolPageClient") /\ AbsentId) =>
    /\ held.val.tool = Null
    /\ held.val.algorithmConfig = NoConfig
    /\ held.val.uiMode = Undefined

\* what each operation returns from the registry as it was loaded
Loaded(op, arg) ==
  CASE op = "hashCategoryNameToSlug" -> Str(hashCategoryNameToSlug(arg))
    [] op = "hashCategorySlugToName" ->
         hashCategorySlugToName(ALL_CATEGORY_TITLES, arg)
    [] op = "roundTrip" ->
         hashCategorySlugToName(ALL_CATEGORY_TITLES,
                                hashCategoryNameToSlug(arg))
    [] op = "getHashCategoryDetails" ->
         getHashCategoryDetails(HASH_CATEGORY_DETAILS, arg)
    [] op = "getAlgorithmsByCategory" ->
         getAlgorithmsByCategory(HASH_ALGORITHMS)
    [] op = "getAllHashCategoryTitles" ->
         getAllHashCategoryTitles(ALL_CATEGORY_TITLES)
    [] op = "HashToolPageClient" -> HashToolPageClient(HASH_ALGORITHMS, arg)

\* C18: the registry stays as it was loaded whatever the callers do with
\* the values they were given, and every call returns what it returns from
\* the registry as loaded.
C18_RegistryUntouched ==
  /\ algorithms = HASH_ALGORITHMS
  /\ categoryDetails = HASH_CATEGORY_DETAILS
  /\ categoryTitles = ALL_CATEGORY_TITLES
  /\ (~NoneHeld /\ ~held.edited) => held.val = Loaded(held.op, held.arg)

\* C19: every algorithm of the registry whose supportsComparison is true
\* has uiMode 'similarity' and category 'Similarity', and its page is in
\* similarity mode.
C19_ComparisonIsSimilarity ==
  /\ \A k \in DOMAIN algorithms :
       algorithms[k].supportsComparison =>
         /\ algorithms[k].uiMode = "similarity"
         /\ algorithms[k].category = CatSimilarity
  /\ (HeldFrom("HashToolPageClient") /\ ~AbsentId) =>
       (held.val.algorithmConfig.entry.supportsComparison
          => held.val.isSimilarity)

C19_Witness ==
  /\ HeldFrom("HashToolPageClient")
  /\ held.arg = "imatch"
  /\ held.val.algorithmConfig.entry.supportsComparison
  /\ held.val.algorithmConfig.entry.category = CatSimilarity
  /\ held.val.isSimilarity

\* C20: getHashCategoryDetails returns a descriptor for every title, and
\* for a title that is no key of the curated table the descriptor built
\* from the title.
C20_FallbackDescriptor ==
  (HeldFrom("getHashCategoryDetails") /\ ~held.edited) =>
    /\ held.val.kind = "descriptor"
    /\ held.arg \notin DOMAIN categoryDetails =>
         held.val = FallbackDetails(held.arg)

\* ------------------------------------------------------ the page's steps
nonPageVars == <<cmpVars, parVars, regVars>>

\* what no step of an open page changes
fixedVars == <<nonPageVars, toolId, lookup>>

Busy(slots, i) == slots[i].pc # "free"
FreeSlots(slots) == {i \in DOMAIN slots : ~Busy(slots, i)}
InFlight == {i \in DOMAIN invocations : Busy(invocations, i)}

\* what a call of computeHash works on and leaves: the invocations, the
\* isComputing flag and the record of the latest start
Running(slots, computing, last) ==
  [slots |-> slots, computing |-> computing, last |-> last]

\* computeHash() called, if call holds, from the closure with these inputs
\* (lines 96-103 and 134-136): past its guards it sets isComputing and
\* awaits the engine
CallComputeHash(call, text1, text2, format, st) ==
  IF call /\ Computes(lookup, text1, text2)
  THEN LET i == CHOOSE i \in FreeSlots(st.slots) :
                  \A j \in FreeSlots(st.slots) : i <= j
       IN Running([k \in DOMAIN st.slots |->
                     IF k = i
                     THEN [pc |-> "engine", text1 |-> text1,
                           text2 |-> text2, format |-> format,
                           latest |-> TRUE]
                     ELSE IF Busy(st.slots, k)
                          THEN [st.slots[k] EXCEPT !.latest = FALSE]
                          ELSE st.slots[k]],
                  TRUE,
                  [text1 |-> text1, text2 |-> text2, format |-> format,
                   outcome |-> "running"])
  ELSE st

\* at most MaxInFlight invocations at once: a step that would start one
\* more waits
Room(call, text1, text2, slots) ==
  (call /\ Computes(lookup, text1, text2)) => FreeSlots(slots) # {}

\* the effect of lines 226-231, run when outputFormat, computeHash or
\* result has changed
FormatMismatch(res, format) == res # Null /\ res.format # format

\* the effect of lines 209-224 run again: the cleanup clears the timer of
\* the previous run, and a new timer is set
RearmInput(timers) == <<0>>

\* the effect of lines 233-241 run again
RearmParam(timers, params) == IF params # NoParams THEN <<0>> ELSE <<>>

Assign(after) ==
  /\ invocations' = after.slots
  /\ isComputing' = after.computing
  /\ lastStart' = after.last

Now == Running(invocations, isComputing, lastStart)

Rendered == lookup.tool # Null

\* the user edits the first text
ChangeInput1 ==
  /\ Rendered
  /\ edits < MaxEdits
  /\ edits' = edits + 1
  /\ \E text \in Texts1 \ {inputText} :
       LET call == FormatMismatch(hashResult, outputFormat)
       IN /\ Room(call, text, inputText2, invocations)
          /\ inputText' = text
          /\ Assign(CallComputeHash(call, text, inputText2,
                                    outputFormat, Now))
  /\ sinceChange' = 0
  /\ inputTimers' = RearmInput(inputTimers)
  /\ paramTimers' = RearmParam(paramTimers, algorithmParams)
  /\ UNCHANGED <<fixedVars, lastComparison,
                 inputText2, outputFormat,
                 algorithmParams, shownVars, expectedHash, verifyResult,
                 toasted>>

\* the user edits the second text, which similarity mode shows
ChangeInput2 ==
  /\ Rendered
  /\ edits < MaxEdits
  /\ edits' = edits + 1
  /\ lookup.isSimilarity
  /\ \E text \in Texts2 \ {inputText2} :
       LET call == FormatMismatch(hashResult, outputFormat)
       IN /\ Room(call, inputText, text, invocations)
          /\ inputText2' = text
          /\ Assign(CallComputeHash(call, inputText, text,
                                    outputFormat, Now))
  /\ sinceChange' = 0
  /\ inputTimers' = RearmInput(inputTimers)
  /\ paramTimers' = RearmParam(paramTimers, algorithmParams)
  /\ UNCHANGED <<fixedVars, lastComparison,
                 inputText, outputFormat,
                 algorithmParams, shownVars, expectedHash, verifyResult,
                 toasted>>

\* the Hex and Base64 buttons, lines 433-446
SetOutputFormat ==
  /\ Rendered
  /\ edits < MaxEdits
  /\ edits' = edits + 1
  /\ \E format \in Formats \ {outputFormat} :
       LET call == FormatMismatch(hashResult, format)
       IN /\ Room(call, inputText, inputText2, invocations)
          /\ outputFormat' = format
          /\ Assign(CallComputeHash(call, inputText, inputText2,
                                    format, Now))
  /\ inputTimers' = RearmInput(inputTimers)
  /\ paramTimers' = RearmParam(paramTimers, algorithmParams)
  /\ UNCHANGED <<fixedVars, lastComparison,
                 inputText, inputText2,
                 algorithmParams, shownVars, expectedHash, verifyResult,
                 toasted, sinceChange>>

\* updateParam, lines 202-207: a new parameter object
UpdateParam ==
  /\ Rendered
  /\ edits < MaxEdits
  /\ edits' = edits + 1
  /\ toolId \in ToolsWithParameters
  /\ LET call == FormatMismatch(hashResult, outputFormat)
     IN /\ Room(call, inputText, inputText2, invocations)
        /\ Assign(CallComputeHash(call, inputText, inputText2,
                                  outputFormat, Now))
  /\ algorithmParams' = EditedParams
  /\ inputTimers' = RearmInput(inputTimers)
  /\ paramTimers' = RearmParam(paramTimers, EditedParams)
  /\ UNCHANGED <<fixedVars, lastComparison,
                 inputText, inputText2,
                 outputFormat, shownVars, expectedHash, verifyResult,
                 toasted, sinceChange>>

\* the expected hash is typed (line 597) and the effect of lines 243-250
\* runs
SetExpectedHash ==
  /\ Rendered
  /\ edits < MaxEdits
  /\ edits' = edits + 1
  /\ lookup.showVerify
  /\ \E expected \in ExpectedInputs \ {expectedHash} :
       /\ expectedHash' = expected
       /\ verifyResult' = VerifyEffect(expected, hashResult, lookup.showVerify)
  /\ UNCHANGED <<fixedVars, lastComparison,
                 inputVars, shownVars,
                 isComputing, toasted, invocations, lastStart, timerVars>>

Min(a, b) == IF a < b THEN a ELSE b

\* a timer that is due
InputDue == \E k \in DOMAIN inputTimers : inputTimers[k] >= InputDelay
ParamDue == \E k \in DOMAIN paramTimers : paramTimers[k] >= ParamDelay

\* time passes, and the toast goes away; a timer that is due runs before
\* time passes on
Tick ==
  /\ ~InputDue
  /\ ~ParamDue
  /\ \/ inputTimers # <<>>
     \/ paramTimers # <<>>
     \/ sinceChange < InputDelay
     \/ toasted
  /\ inputTimers' = [k \in DOMAIN inputTimers |->
                       Min(inputTimers[k] + TickMs, InputDelay)]
  /\ paramTimers' = [k \in DOMAIN paramTimers |->
                       Min(paramTimers[k] + TickMs, ParamDelay)]
  /\ sinceChange' = Min(sinceChange + TickMs, InputDelay)
  /\ toasted' = FALSE
  /\ UNCHANGED <<fixedVars, lastComparison, edits,
                 inputVars, shownVars,
                 expectedHash, verifyResult, isComputing, invocations,
                 lastStart>>

Without(timers, k) ==
  [j \in 1..(Len(timers) - 1) |-> IF j < k THEN timers[j] ELSE timers[j + 1]]

\* a 500 ms timer is due and its callback runs, lines 211-221
FireInputTimer ==
  /\ \E k \in DOMAIN inputTimers :
       /\ inputTimers[k] >= InputDelay
       /\ inputTimers' = Without(inputTimers, k)
  /\ LET call == TimerCalls(lookup, inputText, inputText2)
     IN /\ Room(call, inputText, inputText2, invocations)
        /\ Assign(CallComputeHash(call, inputText, inputText2,
                                  outputFormat, Now))
  /\ UNCHANGED <<fixedVars, lastComparison, edits,
                 inputVars, shownVars,
                 expectedHash, verifyResult, toasted, paramTimers,
                 sinceChange>>

\* a 300 ms timer is due and its callback runs, lines 236-238
FireParamTimer ==
  /\ \E k \in DOMAIN paramTimers :
       /\ paramTimers[k] >= ParamDelay
       /\ paramTimers' = Without(paramTimers, k)
  /\ Room(TRUE, inputText, inputText2, invocations)
  /\ Assign(CallComputeHash(TRUE, inputText, inputText2,
                            outputFormat, Now))
  /\ UNCHANGED <<fixedVars, lastComparison, edits,
                 inputVars, shownVars,
                 expectedHash, verifyResult, toasted, inputTimers,
                 sinceChange>>

\* how the invocation of slot i ended, if it is the one started last
Ended(i, outcome) ==
  IF invocations[i].latest THEN [lastStart EXCEPT !.outcome = outcome]
  ELSE lastStart

\* the engine's promise resolves: lines 112-113, up to the await of the
\* comparator, or lines 145-156 and 163
EngineResolve(i) ==
  /\ invocations[i].pc = "engine"
  /\ LET inv == invocations[i]
         comparison == computeSimilarityComparison(toolId, inv.text1,
                                                   inv.text2, inv.format)
         finalResult == computeHashClient(toolId, inv.text1, inv.format)
         res == IF lookup.isSimilarity THEN comparison.result1
                ELSE finalResult
         call == FormatMismatch(res, outputFormat)
         st == IF lookup.isSimilarity
               THEN Running([invocations EXCEPT ![i].pc = "compare"],
                            isComputing, lastStart)
               ELSE Running([invocations EXCEPT ![i] = Free], FALSE,
                            Ended(i, "ok"))
     IN /\ Room(call, inputText, inputText2, st.slots)
        /\ hashResult' = res
        /\ hashResult2' = IF lookup.isSimilarity THEN comparison.result2
                          ELSE Null
        /\ comparisonResult' = IF lookup.isSimilarity THEN comparisonResult
                               ELSE Null
        /\ verifyResult' = VerifyEffect(expectedHash, res, lookup.showVerify)
        /\ Assign(CallComputeHash(call, inputText, inputText2,
                                  outputFormat, st))
  /\ UNCHANGED <<fixedVars, lastComparison, edits,
                 inputVars, expectedHash,
                 toasted, timerVars>>

\* the catch and finally blocks, lines 124-131 and 157-164
Rejected_Cleared(i) ==
  /\ toasted' = TRUE
  /\ invocations' = [invocations EXCEPT ![i] = Free]
  /\ isComputing' = FALSE
  /\ lastStart' = Ended(i, "failed")
  /\ hashResult' = Null
  /\ hashResult2' = Null
  /\ comparisonResult' = Null
  /\ UNCHANGED <<fixedVars, lastComparison, edits,
                 inputVars,
                 expectedHash, verifyResult, timerVars>>

Rejected(i) ==
  /\ toasted' = TRUE
  /\ invocations' = [invocations EXCEPT ![i] = Free]
  /\ isComputing' = FALSE
  /\ lastStart' = Ended(i, "failed")
  /\ UNCHANGED <<fixedVars, lastComparison, edits,
                 inputVars, shownVars,
                 expectedHash, verifyResult, timerVars>>

\* the engine's promise rejects
EngineReject(i) ==
  /\ invocations[i].pc = "engine"
  /\ Rejected(i)

\* the comparator's promise resolves: lines 121-123 and 130
CompareResolve(i) ==
  /\ invocations[i].pc = "compare"
  /\ LET inv == invocations[i]
         metrics == Compared(toolId, inv.text1, inv.text2)
     IN /\ comparisonResult' = metrics
        /\ lastComparison' = [tag |-> "returned", value |-> metrics,
                              before |-> comparisonResult]
  /\ verifyResult' = Null
  /\ isComputing' = FALSE
  /\ invocations' = [invocations EXCEPT ![i] = Free]
  /\ lastStart' = Ended(i, "ok")
  /\ UNCHANGED <<fixedVars, edits,
                 inputVars, hashResult,
                 hashResult2, expectedHash, toasted, timerVars>>

\* the comparator's promise rejects
CompareReject(i) ==
  /\ invocations[i].pc = "compare"
  /\ MayThrow(toolId)
  /\ Rejected(i)

Settle(i) ==
  \/ EngineResolve(i)
  \/ EngineReject(i)
  \/ CompareResolve(i)
  \/ CompareReject(i)

PageNext ==
  \/ ChangeInput1
  \/ ChangeInput2
  \/ SetOutputFormat
  \/ UpdateParam
  \/ SetExpectedHash
  \/ Tick
  \/ FireInputTimer
  \/ FireParamTimer
  \/ \E i \in 1..MaxInFlight : Settle(i)

PageInit ==
  /\ CmpInit
  /\ ParQuiet
  /\ RegQuiet
  /\ \E id \in PageTools : Mounted(id)

SpecPage == PageInit /\ [][PageNext]_vars

\* promises settle: the engine and the comparator finish every call
SpecPageLive ==
  /\ PageInit
  /\ [][PageNext]_vars
  /\ \A i \in 1..MaxInFlight : WF_vars(Settle(i))

\* ------------------------------------------------- properties of the page
Card == ComparisonCard(lookup.isSimilarity, comparisonResult)

HasSimilarity(comparison) ==
  comparison # Null /\ "similarity" \in DOMAIN comparison

\* C21: when a comparison result with a similarity is displayed, the label
\* is "high" if the similarity is above 0.7, otherwise "moderate" if it is
\* above 0.4, otherwise "low", so that 0.7 is moderate and 0.4 is low; a
\* result without a similarity has no label.
C21_LabelThresholds ==
  /\ (Card.shown /\ HasSimilarity(comparisonResult)) =>
       LET s == comparisonResult.similarity
       IN /\ s.den > 0
          /\ (10 * s.num > 7 * s.den) => Card.label = {"high"}
          /\ (10 * s.num <= 7 * s.den /\ 10 * s.num > 4 * s.den) =>
               Card.label = {"moderate"}
          /\ (10 * s.num <= 4 * s.den) => Card.label = {"low"}
  /\ ~HasSimilarity(comparisonResult) => Card.label = {}

\* a similarity of exactly 0.7 is on the screen, labelled moderate
C21_Witness ==
  /\ Card.shown
  /\ HasSimilarity(comparisonResult)
  /\ FracEq(comparisonResult.similarity, Frac(7, 10))
  /\ Card.label = {"moderate"}

\* C22: whenever the comparison finished last returned null, the page
\* renders no similarity score, no distance and no label, whatever an
\* earlier comparison gave.
C22_NullIsNotComparable ==
  (lookup.isSimilarity /\ lastComparison.tag = "returned"
     /\ lastComparison.value = Null) =>
    /\ Card.score = {}
    /\ Card.distance = {}
    /\ Card.label = {}

\* a comparison has returned null where a score was on the screen
C22_Witness ==
  /\ lookup.isSimilarity
  /\ lastComparison.tag = "returned"
  /\ lastComparison.value = Null
  /\ HasSimilarity(lastComparison.before)
  /\ Card = NoCard
  /\ hashResult # Null
  /\ hashResult2 # Null

\* what the comparator returns for the hex outputs of two texts
ComparisonOf(text1, text2) ==
  compareSimilarityHashes(toolId, EngineHex(toolId, text1),
                          EngineHex(toolId, text2), 0).ret

\* the two hash results on the screen are outputs for these two texts
ShownFrom(text1, text2) ==
  /\ hashResult = HashResult(EngineHex(toolId, text1), hashResult.format)
  /\ hashResult2 = HashResult(EngineHex(toolId, text2), hashResult2.format)

\* C25: in similarity mode a stored comparison result beside two stored
\* hash results is the comparison of exactly those two hashes.
C25_ComparisonOfShownHashes ==
  (lookup.isSimilarity /\ hashResult # Null /\ hashResult2 # Null
     /\ comparisonResult # Null) =>
    \E text1 \in Texts1, text2 \in Texts2 :
      /\ ShownFrom(text1, text2)
      /\ comparisonResult = ComparisonOf(text1, text2)

\* what an invocation with these inputs stores when nothing fails
StoredBy(start) ==
  IF lookup.isSimilarity
  THEN LET comparison == computeSimilarityComparison(toolId, start.text1,
                                                     start.text2,
                                                     start.format)
       IN <<comparison.result1, comparison.result2,
            ComparisonOf(start.text1, start.text2)>>
  ELSE <<computeHashClient(toolId, start.text1, start.format), Null, Null>>

C27_ComputingWhileInFlight == InFlight # {} => isComputing

\* a step in which the engine or the comparator of an invocation throws
Fails == \E i \in 1..MaxInFlight : EngineReject(i) \/ CompareReject(i)

\* a step in which an invocation ends and no other one starts
Finishes ==
  /\ \E i \in 1..MaxInFlight :
       Busy(invocations, i) /\ ~Busy(invocations', i)
  /\ \A i \in 1..MaxInFlight :
       Busy(invocations', i) => invocations'[i] = invocations[i]

\* C28: every invocation that has set isComputing comes to its end,
\* whether the engine and the comparator succeed or throw, and its end
\* sets isComputing to false; a failure is reported to the user and leaves
\* result, result2 and comparisonResult as they were.
C28_EveryInvocationFinishes ==
  /\ \A i \in 1..MaxInFlight :
       Busy(invocations, i) ~> ~Busy(invocations, i)
  /\ [][/\ Finishes => ~isComputing'
        /\ Fails => (toasted' /\ UNCHANGED shownVars)]_vars

\* an invocation has failed beside results of an earlier one: the failure is
\* on the screen, the results are still there and nothing is computing
C28_Witness ==
  /\ lastStart.outcome = "failed"
  /\ toasted
  /\ hashResult # Null
  /\ InFlight = {}
  /\ ~isComputing

\* a step in which an input text changes
InputChanges == inputText' # inputText \/ inputText2' # inputText2

\* a step in which an input timer runs
InputTimerRuns == Len(inputTimers') < Len(inputTimers)

\* a step in which an invocation starts
Starts ==
  \E i \in 1..MaxInFlight :
    /\ invocations'[i] # invocations[i]
    /\ invocations'[i].pc = "engine"

\* C29: each change of an input text cancels the pending 500 ms timer and
\* starts a new one, so at most one input timer is pending at any time; a
\* computation that a change of the input or the input timer starts is
\* started only after 500 ms without a change, and only with the input
\* (both inputs in similarity mode) not blank.
C29_InputDebounced ==
  /\ [](Len(inputTimers) <= 1)
  /\ [][/\ InputChanges => inputTimers' = <<0>>
        /\ ((InputChanges \/ InputTimerRuns) /\ Starts) =>
             /\ sinceChange' >= InputDelay
             /\ ~IsBlank(inputText')
             /\ lookup.isSimilarity => ~IsBlank(inputText2')]_vars

\* C30: the verify result is determined by the result and the expected
\* hash: null when the expected hash is blank, there is no result or the
\* page is in similarity mode; else a failed match with the invalid-format
\* reason when the expected text is neither hex nor base64; else the match
\* is true exactly when the expected text and the hash are equal up to
\* letter case, and a failed match carries the mismatch reason.
C30_VerifyIsFunction ==
  IF IsBlank(expectedHash) \/ hashResult = Null \/ lookup.isSimilarity
  THEN verifyResult = Null
  ELSE /\ verifyResult # Null
       /\ IF ~IsHexFormat(expectedHash) /\ ~IsBase64Format(expectedHash)
          THEN /\ ~verifyResult.match
               /\ verifyResult.reason =
                    "Invalid hash format (must be hex or base64)"
          ELSE /\ verifyResult.match <=>
                    toLowerCase(expectedHash) = toLowerCase(hashResult.hash)
               /\ ~verifyResult.match =>
                    verifyResult.reason = "Hash values don't match"

C30_Witness ==
  /\ toolId = "sha256"
  /\ hashResult # Null
  /\ expectedHash = <<"A", "7">>
  /\ hashResult.hash = <<"a", "7">>
  /\ verifyResult # Null
  /\ verifyResult.match

====
